---- MODULE Spec2Model ----
(***************************************************************************)
(* GEDCOM-Reader: the parsing pipeline of src/parse_engine.py as driven by *)
(* File.__init__ (src/file.py): tokenizer and hierarchy builder, header,   *)
(* individual and family passes, the date sub-grammar and the run wrapper. *)
(*                                                                         *)
(* A Python str is a sequence of one-character strings, so that split,     *)
(* isdigit, int, upper, count, replace and slicing are computed, not       *)
(* assumed.  Enum membership tests (x in SomeEnum) follow Python >= 3.12,  *)
(* where a plain value is looked up among the member values.               *)
(***************************************************************************)
EXTENDS Integers, Sequences, FiniteSets, TLC

(***************************************************************************)
(* Bounds of the explored inputs                                           *)
(***************************************************************************)
MaxLevel == 2
MaxLines == 4
MaxDateTokens == 3
MaxBlocks == 3
MaxTokens == 5
MaxNameTokens == 3
MaxDepth == 2
MaxKindTokens == 3
MaxRegLines == 3
MaxDetailLines == 3

(***************************************************************************)
(* Python str operations                                                   *)
(***************************************************************************)
DigitChars == <<"0", "1", "2", "3", "4", "5", "6", "7", "8", "9">>
UpperChars == <<"A", "B", "C", "D", "E", "F", "G", "H", "I", "J", "K", "L", "M",
                "N", "O", "P", "Q", "R", "S", "T", "U", "V", "W", "X", "Y", "Z">>
LowerChars == <<"a", "b", "c", "d", "e", "f", "g", "h", "i", "j", "k", "l", "m",
                "n", "o", "p", "q", "r", "s", "t", "u", "v", "w", "x", "y", "z">>

Range(s) == {s[k] : k \in DOMAIN s}

\* str.isdigit(): non-empty and every character is a digit
isdigit(s) == s # <<>> /\ \A k \in DOMAIN s : s[k] \in Range(DigitChars)

\* c.isalnum() for one character
isalnum(c) == c \in Range(DigitChars) \cup Range(UpperChars) \cup Range(LowerChars)

DigitVal(c) == CHOOSE d \in 0..9 : DigitChars[d + 1] = c

\* int(s) for a string that satisfies isdigit
RECURSIVE int(_)
int(s) == IF s = <<>> THEN 0
          ELSE 10 * int(SubSeq(s, 1, Len(s) - 1)) + DigitVal(s[Len(s)])

UpperChar(c) == IF c \in Range(LowerChars)
                THEN UpperChars[CHOOSE k \in DOMAIN LowerChars : LowerChars[k] = c]
                ELSE c

\* str.upper()
upper(s) == [k \in DOMAIN s |-> UpperChar(s[k])]

\* str.count(c) for a one-character argument
count(s, c) == Cardinality({k \in DOMAIN s : s[k] = c})

\* str.rstrip(c), str.lstrip(c), str.strip(c) for a one-character argument
RECURSIVE rstrip(_, _)
rstrip(s, c) == IF s # <<>> /\ s[Len(s)] = c THEN rstrip(SubSeq(s, 1, Len(s) - 1), c) ELSE s

RECURSIVE lstrip(_, _)
lstrip(s, c) == IF s # <<>> /\ s[1] = c THEN lstrip(Tail(s), c) ELSE s

strip(s, c) == lstrip(rstrip(s, c), c)

\* sub in s, for strings
contains(s, sub) ==
  \E k \in 1..(Len(s) - Len(sub) + 1) : SubSeq(s, k, k + Len(sub) - 1) = sub

\* str.replace(c, '') for a one-character argument
remove_char(s, c) == SelectSeq(s, LAMBDA x : x # c)

\* str.replace(sub, '') : every non-overlapping occurrence, left to right
RECURSIVE remove_sub(_, _)
remove_sub(s, sub) ==
  IF sub = <<>> \/ Len(s) < Len(sub) THEN s
  ELSE IF SubSeq(s, 1, Len(sub)) = sub
       THEN remove_sub(SubSeq(s, Len(sub) + 1, Len(s)), sub)
       ELSE <<s[1]>> \o remove_sub(Tail(s), sub)

\* str.split(): split on runs of whitespace, no empty tokens
RECURSIVE split_from(_, _, _, _)
split_from(s, k, cur, acc) ==
  IF k > Len(s) THEN (IF cur = <<>> THEN acc ELSE Append(acc, cur))
  ELSE IF s[k] = " "
       THEN split_from(s, k + 1, <<>>, IF cur = <<>> THEN acc ELSE Append(acc, cur))
       ELSE split_from(s, k + 1, Append(cur, s[k]), acc)

split(s) == split_from(s, 1, <<>>, <<>>)

\* str.split(c) for a one-character separator: empty pieces are kept
RECURSIVE split_on(_, _)
split_on(s, c) ==
  IF \A k \in DOMAIN s : s[k] # c THEN <<s>>
  ELSE LET p == CHOOSE k \in DOMAIN s : s[k] = c /\ \A j \in 1..(k - 1) : s[j] # c
       IN <<SubSeq(s, 1, p - 1)>> \o split_on(SubSeq(s, p + 1, Len(s)), c)

\* ' '.join(tokens)
RECURSIVE join(_)
join(tokens) ==
  IF tokens = <<>> THEN <<>>
  ELSE IF Len(tokens) = 1 THEN tokens[1]
  ELSE tokens[1] \o <<" ">> \o join(Tail(tokens))

(***************************************************************************)
(* src/enums.py                                                            *)
(***************************************************************************)
\* enums.Tag, member name -> value: Tag.HEAD is the member, Range(Tag) the
\* set of values (every member's value equals its name)
Tag ==
  [
    GEDC |-> <<"G", "E", "D", "C">>,
    HEAD |-> <<"H", "E", "A", "D">>,
    TRLR |-> <<"T", "R", "L", "R">>,
    VERS |-> <<"V", "E", "R", "S">>,
    DEST |-> <<"D", "E", "S", "T">>,
    SOUR |-> <<"S", "O", "U", "R">>,
    CORP |-> <<"C", "O", "R", "P">>,
    DATA |-> <<"D", "A", "T", "A">>,
    DATE |-> <<"D", "A", "T", "E">>,
    COMM |-> <<"C", "O", "M", "M">>,
    COPR |-> <<"C", "O", "P", "R">>,
    TIME |-> <<"T", "I", "M", "E">>,
    LANG |-> <<"L", "A", "N", "G">>,
    SUBM |-> <<"S", "U", "B", "M">>,
    SUBN |-> <<"S", "U", "B", "N">>,
    FILE |-> <<"F", "I", "L", "E">>,
    NOTE |-> <<"N", "O", "T", "E">>,
    FAM |-> <<"F", "A", "M">>,
    HUSB |-> <<"H", "U", "S", "B">>,
    WIFE |-> <<"W", "I", "F", "E">>,
    MARR |-> <<"M", "A", "R", "R">>,
    CHIL |-> <<"C", "H", "I", "L">>,
    NCHI |-> <<"N", "C", "H", "I">>,
    REFN |-> <<"R", "E", "F", "N">>,
    TYPE |-> <<"T", "Y", "P", "E">>,
    FONE |-> <<"F", "O", "N", "E">>,
    RIN |-> <<"R", "I", "N">>,
    INDI |-> <<"I", "N", "D", "I">>,
    SEX |-> <<"S", "E", "X">>,
    OBJE |-> <<"O", "B", "J", "E">>,
    TITL |-> <<"T", "I", "T", "L">>,
    REPO |-> <<"R", "E", "P", "O">>,
    PLAC |-> <<"P", "L", "A", "C">>,
    AGNC |-> <<"A", "G", "N", "C">>,
    AUTH |-> <<"A", "U", "T", "H">>,
    ABBR |-> <<"A", "B", "B", "R">>,
    TEXT |-> <<"T", "E", "X", "T">>,
    ADDR |-> <<"A", "D", "D", "R">>,
    ADR1 |-> <<"A", "D", "R", "1">>,
    ADR2 |-> <<"A", "D", "R", "2">>,
    ADR3 |-> <<"A", "D", "R", "3">>,
    CITY |-> <<"C", "I", "T", "Y">>,
    STAE |-> <<"S", "T", "A", "E">>,
    POST |-> <<"P", "O", "S", "T">>,
    COUN |-> <<"C", "O", "U", "N">>,
    PHON |-> <<"P", "H", "O", "N">>,
    EMAIL |-> <<"E", "M", "A", "I", "L">>,
    FAX |-> <<"F", "A", "X">>,
    WWW |-> <<"W", "W", "W">>,
    ASSOC |-> <<"A", "S", "S", "O", "C">>,
    RELA |-> <<"R", "E", "L", "A">>,
    CHAN |-> <<"C", "H", "A", "N">>,
    FAMC |-> <<"F", "A", "M", "C">>,
    PEDI |-> <<"P", "E", "D", "I">>,
    CAUS |-> <<"C", "A", "U", "S">>,
    AGE |-> <<"A", "G", "E">>,
    ANUL |-> <<"A", "N", "U", "L">>,
    CENS |-> <<"C", "E", "N", "S">>,
    DIV |-> <<"D", "I", "V">>,
    DIVF |-> <<"D", "I", "V", "F">>,
    ENGA |-> <<"E", "N", "G", "A">>,
    MARB |-> <<"M", "A", "R", "B">>,
    MARC |-> <<"M", "A", "R", "C">>,
    MARL |-> <<"M", "A", "R", "L">>,
    MARS |-> <<"M", "A", "R", "S">>,
    RESI |-> <<"R", "E", "S", "I">>,
    EVEN |-> <<"E", "V", "E", "N">>,
    CAST |-> <<"C", "A", "S", "T">>,
    DESC |-> <<"D", "E", "S", "C">>,
    EDUC |-> <<"E", "D", "U", "C">>,
    IDNO |-> <<"I", "D", "N", "O">>,
    NATI |-> <<"N", "A", "T", "I">>,
    NAME |-> <<"N", "A", "M", "E">>,
    RELN |-> <<"R", "E", "L", "N">>,
    OCCU |-> <<"O", "C", "C", "U">>,
    POSS |-> <<"P", "O", "S", "S">>,
    RELI |-> <<"R", "E", "L", "I">>,
    FACT |-> <<"F", "A", "C", "T">>,
    BIRT |-> <<"B", "I", "R", "T">>,
    CHR |-> <<"C", "H", "R">>,
    DEAT |-> <<"D", "E", "A", "T">>,
    BURI |-> <<"B", "U", "R", "I">>,
    CREM |-> <<"C", "R", "E", "M">>,
    ADOP |-> <<"A", "D", "O", "P">>,
    BAPM |-> <<"B", "A", "P", "M">>,
    BARM |-> <<"B", "A", "R", "M">>,
    BASM |-> <<"B", "A", "S", "M">>,
    CHRA |-> <<"C", "H", "R", "A">>,
    CONF |-> <<"C", "O", "N", "F">>,
    CONT |-> <<"C", "O", "N", "T">>,
    FCOM |-> <<"F", "C", "O", "M">>,
    NATU |-> <<"N", "A", "T", "U">>,
    EMIG |-> <<"E", "M", "I", "G">>,
    IMMI |-> <<"I", "M", "M", "I">>,
    PROB |-> <<"P", "R", "O", "B">>,
    WILL |-> <<"W", "I", "L", "L">>,
    GRAD |-> <<"G", "R", "A", "D">>,
    RETI |-> <<"R", "E", "T", "I">>,
    NPFX |-> <<"N", "P", "F", "X">>,
    GIVN |-> <<"G", "I", "V", "N">>,
    NICK |-> <<"N", "I", "C", "K">>,
    SPFX |-> <<"S", "P", "F", "X">>,
    SURN |-> <<"S", "U", "R", "N">>,
    NSFX |-> <<"N", "S", "F", "X">>,
    ROMN |-> <<"R", "O", "M", "N">>,
    MAP |-> <<"M", "A", "P">>,
    LATI |-> <<"L", "A", "T", "I">>,
    LONG |-> <<"L", "O", "N", "G">>,
    PAGE |-> <<"P", "A", "G", "E">>,
    ROLE |-> <<"R", "O", "L", "E">>,
    CERT |-> <<"C", "E", "R", "T">>,
    MEDI |-> <<"M", "E", "D", "I">>,
    FAMS |-> <<"F", "A", "M", "S">>,
    CHAR |-> <<"C", "H", "A", "R">>,
    FORM |-> <<"F", "O", "R", "M">>,
    CTRY |-> <<"C", "T", "R", "Y">>,
    CONC |-> <<"C", "O", "N", "C">>,
    PUBL |-> <<"P", "U", "B", "L">>,
    ALIA |-> <<"A", "L", "I", "A">>,
    RESN |-> <<"R", "E", "S", "N">>,
    BLES |-> <<"B", "L", "E", "S">>,
    ORDN |-> <<"O", "R", "D", "N">>,
    SSN |-> <<"S", "S", "N">>,
    FSID |-> <<"F", "S", "I", "D">>
  ]

ObsoleteTag ==
  {
    <<"S", "S", "N">>, <<"F", "S", "I", "D">>
  }

Month ==
  {
    <<"J", "A", "N">>, <<"F", "E", "B">>, <<"M", "A", "R">>, <<"A", "P", "R">>, <<"M", "A", "Y">>, <<"J", "U", "N">>,
    <<"J", "U", "L">>, <<"A", "U", "G">>, <<"S", "E", "P">>, <<"O", "C", "T">>, <<"N", "O", "V">>, <<"D", "E", "C">>
  }

DatePeriod ==
  {
    <<"F", "R", "O", "M">>, <<"T", "O">>
  }

DateRange ==
  {
    <<>>, <<"B", "E", "F">>, <<"A", "F", "T">>,
    <<"B", "E", "T">>
  }

DateApproximated ==
  {
    <<>>, <<"A", "B", "T">>, <<"C", "A", "L">>,
    <<"E", "S", "T">>
  }

CalendarType ==
  {
    <<"@", "#", "D", "G", "R", "E", "G", "O", "R", "I", "A", "N", "@">>, <<"@", "#", "D", "J", "U", "L", "I", "A", "N", "@">>, <<"@", "#", "D", "H", "E", "B", "R", "E", "W", "@">>,
    <<"@", "#", "D", "F", "R", "E", "N", "C", "H", " ", "R", "@">>, <<"@", "#", "D", "R", "O", "M", "A", "N", "@">>, <<"@", "#", "D", "U", "N", "K", "N", "O", "W", "N", "@">>
  }

NameType ==
  {
    <<"m", "a", "i", "n">>, <<"a", "k", "a">>, <<"b", "i", "r", "t", "h">>,
    <<"i", "m", "m", "i", "g", "r", "a", "n", "t">>, <<"m", "a", "i", "d", "e", "n">>, <<"m", "a", "r", "r", "i", "e", "d">>
  }

PhoneticType ==
  {
    <<>>, <<"h", "a", "n", "g", "u", "l">>, <<"k", "a", "n", "a">>
  }

RomanizedType ==
  {
    <<>>, <<"p", "i", "n", "y", "i", "n">>, <<"r", "o", "m", "a", "j", "i">>,
    <<"w", "a", "d", "e", "g", "i", "l", "e", "s">>
  }

Restriction ==
  {
    <<>>, <<"p", "r", "i", "v", "a", "c", "y">>, <<"c", "o", "n", "f", "i", "d", "e", "n", "t", "i", "a", "l">>,
    <<"l", "o", "c", "k", "e", "d">>
  }

Form ==
  {
    <<"L", "I", "N", "E", "A", "G", "E", "-", "L", "I", "N", "K", "E", "D">>
  }

\* Sex(value): the member of enums.Sex whose value is the string
SexValues ==
  {
    <<"M">>, <<"F">>, <<"U">>
  }

\* enums.event_type_individual: event tag -> explicit event type
event_type_individual ==
  (<<"E", "V", "E", "N">> :> "") @@
  (<<"B", "I", "R", "T">> :> "Birth") @@
  (<<"C", "H", "R">> :> "Adult Christening") @@
  (<<"D", "E", "A", "T">> :> "Death") @@
  (<<"B", "U", "R", "I">> :> "Burial") @@
  (<<"C", "R", "E", "M">> :> "Cremation") @@
  (<<"A", "D", "O", "P">> :> "Adoption") @@
  (<<"N", "A", "T", "U">> :> "Naturalization") @@
  (<<"E", "M", "I", "G">> :> "Emigration") @@
  (<<"I", "M", "M", "I">> :> "Immigration") @@
  (<<"B", "A", "P", "M">> :> "Baptism") @@
  (<<"B", "A", "R", "M">> :> "Bar Mitzvah") @@
  (<<"B", "A", "S", "M">> :> "Bas Mitzvah") @@
  (<<"B", "L", "E", "S">> :> "Bles") @@
  (<<"C", "H", "R", "A">> :> "Christening") @@
  (<<"C", "O", "N", "F">> :> "Confirmation") @@
  (<<"F", "C", "O", "M">> :> "First Communion") @@
  (<<"O", "R", "D", "N">> :> "Ord") @@
  (<<"C", "E", "N", "S">> :> "Census") @@
  (<<"P", "R", "O", "B">> :> "Probate") @@
  (<<"W", "I", "L", "L">> :> "Will") @@
  (<<"G", "R", "A", "D">> :> "Graduation") @@
  (<<"R", "E", "T", "I">> :> "Retirement")


(***************************************************************************)
(* src/utils.py                                                            *)
(***************************************************************************)
\* token.isdigit() and 0 <= int(token) <= 99
is_valid_level(token) == isdigit(token) /\ int(token) >= 0 /\ int(token) <= 99

\* len(token) > 2 and token[0] == '@' and token[-1] == '@'
is_cross_ref_id(token) == Len(token) > 2 /\ token[1] = "@" /\ token[Len(token)] = "@"

\* interior characters alphanumeric and not '@'
is_valid_cross_ref_id(token) ==
  /\ Len(token) > 2
  /\ \A k \in 2..(Len(token) - 1) : isalnum(token[k]) /\ token[k] # "@"

is_obsolete_tag(token) == token \in ObsoleteTag

is_valid_tag(token) == token \in Range(Tag)

is_user_defined_tag(token, allow_redefined) ==
  /\ token # <<>>
  /\ token[1] = "_"
  /\ count(Tail(token), "_") = 0
  /\ (allow_redefined \/ lstrip(token, "_") \notin Range(Tag))

is_valid_line_value_token(token) == TRUE

(***************************************************************************)
(* Values shared by the parsers                                            *)
(***************************************************************************)
\* ParseEngine._error is None, or one of the messages below (by kind)
None == "None"

\* An optional value: <<>> is Python's None, <<v>> is the value v
Nothing == <<>>
Some(v) == <<v>>

\* src/entity.py, Record.__init__
Record(level) ==
  [level |-> level, tag |-> <<>>, line_value |-> <<>>,
   cross_ref_id |-> <<>>, cross_ref_ptr |-> <<>>,
   ignorable |-> FALSE, child_records |-> <<>>, individual |-> Nothing]

(***************************************************************************)
(* ParseEngine.parse_raw_line                                              *)
(*                                                                         *)
(* reg is the engine's registries [refs, header, indi, fam, warnings]; idx *)
(* is the identity of the Record object the line creates.  The result      *)
(* carries the Record returned (Nothing for Python's None), the Record     *)
(* object as far as it was built (it stays reachable from the registries   *)
(* when the line is rejected after a registration), the error set, whether *)
(* an uncaught IndexError ended the call, and the registries afterwards.   *)
(***************************************************************************)
prl_result(record, made, err, crash, reg) ==
  [record |-> record, made |-> made, error |-> err, crash |-> crash, reg |-> reg]

\* Variant of has_cross_ref_id that never sees the identifier
has_cross_ref_id_never(record) == FALSE

\* line 182: `if record.cross_ref_id`, the record defines an identifier
has_cross_ref_id(record) == record.cross_ref_id # <<>>

\* lines 175-195: the rest of the tokens, positions i..Len(tokens)
RECURSIVE prl_line_value(_, _, _)
prl_line_value(tokens, i, record) ==
  IF i > Len(tokens) THEN [error |-> None, record |-> record]
  ELSE IF is_cross_ref_id(tokens[i]) /\ is_valid_cross_ref_id(tokens[i])
       THEN IF has_cross_ref_id(record)
            THEN [error |-> "DuplicatePointerAndReference", record |-> record]
            ELSE prl_line_value(tokens, i + 1, [record EXCEPT !.cross_ref_ptr = tokens[i]])
       ELSE IF is_valid_line_value_token(tokens[i])
            THEN prl_line_value(tokens, i + 1,
                   [record EXCEPT !.line_value =
                      @ \o tokens[i] \o (IF i # Len(tokens) THEN <<" ">> ELSE <<>>)])
            ELSE [error |-> "InvalidText", record |-> record]

\* lines 151-195: tokens[t] must be a tag; then the line value
prl_tag(tokens, t, record, idx, reg) ==
  IF t > Len(tokens) THEN prl_result(Nothing, Some(record), None, TRUE, reg)
  ELSE
    LET tok == tokens[t] IN
    IF ~(is_valid_tag(tok) \/ is_user_defined_tag(tok, TRUE) \/ is_obsolete_tag(tok))
    THEN prl_result(Nothing, Some(record), "InvalidTag", FALSE, reg)
    ELSE
      LET standard == is_valid_tag(tok) \/ is_user_defined_tag(tok, TRUE)
          tagged   == IF standard
                      THEN [record EXCEPT !.tag = tok]
                      ELSE [record EXCEPT !.tag = tok, !.ignorable = TRUE]
          reg1     == IF standard
                      THEN [reg EXCEPT
                              !.indi   = IF tok = Tag.INDI THEN Append(@, idx) ELSE @,
                              !.fam    = IF tok = Tag.FAM  THEN Append(@, idx) ELSE @,
                              !.header = IF tok = Tag.HEAD THEN Some(idx) ELSE @]
                      ELSE [reg EXCEPT !.warnings = Append(@, "ObsoleteTag")]
          rest     == prl_line_value(tokens, t + 1, tagged)
      IN IF rest.error # None
         THEN prl_result(Nothing, Some(rest.record), rest.error, FALSE, reg1)
         ELSE prl_result(Some(rest.record), Some(rest.record), None, FALSE, reg1)

\* Variant of is_defined that never finds an earlier definition
is_defined_never(refs, id) == FALSE

\* line 137: the identifier is already a key of the cross-reference table
is_defined(refs, id) == id \in DOMAIN refs

\* lines 119-149: level, optional cross reference id
parse_raw_line(raw_line, idx, reg) ==
  LET tokens == split(raw_line) IN
  IF Len(tokens) < 1 THEN prl_result(Nothing, Nothing, None, TRUE, reg)
  ELSE IF ~is_valid_level(tokens[1])
  THEN prl_result(Nothing, Nothing, "InvalidLevel", FALSE, reg)
  ELSE
    LET record == Record(int(tokens[1])) IN
    IF Len(tokens) < 2 THEN prl_result(Nothing, Some(record), None, TRUE, reg)
    ELSE IF ~is_cross_ref_id(tokens[2]) THEN prl_tag(tokens, 2, record, idx, reg)
    ELSE IF ~is_valid_cross_ref_id(tokens[2])
    THEN prl_result(Nothing, Some(record), "InvalidCrossReferenceId", FALSE, reg)
    ELSE IF is_defined(reg.refs, tokens[2])
    THEN prl_result(Nothing, Some(record), "DuplicateCrossReference", FALSE, reg)
    ELSE prl_tag(tokens, 3, [record EXCEPT !.cross_ref_id = tokens[2]], idx,
                 [reg EXCEPT !.refs = (tokens[2] :> idx) @@ @])

(***************************************************************************)
(* EntityContainer.prune_data (src/entity.py).  A Python value is a record *)
(* of one shape: its kind k ("None", "str", "int", "list", "dict" or       *)
(* "entity" for an EntityContainer), the characters s of a str, the number *)
(* n of an int, and for a list, a dict or the _data of a container the     *)
(* items in order, with the keys of a dict beside them.                    *)
(***************************************************************************)
PyValue(k, chars, n, keys, items) ==
  [k |-> k, s |-> chars, n |-> n, keys |-> keys, items |-> items]

PyNone == PyValue("None", <<>>, 0, <<>>, <<>>)

PyStr(chars) == PyValue("str", chars, 0, <<>>, <<>>)

PyInt(n) == PyValue("int", <<>>, n, <<>>, <<>>)

PyList(items) == PyValue("list", <<>>, 0, <<>>, items)

PyDict(keys, items) == PyValue("dict", <<>>, 0, keys, items)

PyEntity(keys, items) == PyValue("entity", <<>>, 0, keys, items)

Whitespace == {" ", "\t", "\n"}

\* str.strip() without argument
RECURSIVE strip_whitespace(_)
strip_whitespace(chars) ==
  IF chars = <<>> THEN chars
  ELSE IF chars[1] \in Whitespace THEN strip_whitespace(Tail(chars))
  ELSE IF chars[Len(chars)] \in Whitespace
  THEN strip_whitespace(SubSeq(chars, 1, Len(chars) - 1))
  ELSE chars

\* Variant of is_empty that keeps blank strings
is_empty_but_blank(value) ==
  \/ value.k = "None"
  \/ value.k = "str" /\ value.s = <<>>
  \/ value.k \in {"list", "dict"} /\ value.items = <<>>

\* lines 58-65
is_empty(value) ==
  \/ value.k = "None"
  \/ value.k = "str" /\ strip_whitespace(value.s) = <<>>
  \/ value.k \in {"list", "dict"} /\ value.items = <<>>

\* The positions of a comprehension's source whose serialized value passes
\* `if not is_empty(v_ser := serialize(v))`
kept_positions(serialized) ==
  SelectSeq([i \in DOMAIN serialized |-> i], LAMBDA i : ~is_empty(serialized[i]))

\* lines 67-86
RECURSIVE serialize(_)
serialize(value) ==
  IF value.k \in {"entity", "dict"}
  THEN LET comprehension(serialized) ==
             LET kept == kept_positions(serialized)
             IN IF kept = <<>> THEN PyNone
                ELSE PyDict([j \in DOMAIN kept |-> value.keys[kept[j]]],
                            [j \in DOMAIN kept |-> serialized[kept[j]]])
       IN comprehension([i \in DOMAIN value.items |-> serialize(value.items[i])])
  ELSE IF value.k = "list"
  THEN LET comprehension(serialized) ==
             LET kept == kept_positions(serialized)
             IN IF kept = <<>> THEN PyNone
                ELSE PyList([j \in DOMAIN kept |-> serialized[kept[j]]])
       IN comprehension([i \in DOMAIN value.items |-> serialize(value.items[i])])
  ELSE IF is_empty(value) THEN PyNone ELSE value

\* lines 51-94: data is the container's _data
prune_data(data) ==
  LET loop(serialized) ==
        LET kept == SelectSeq([i \in DOMAIN serialized |-> i],
                              LAMBDA i : serialized[i] # PyNone)
        IN PyDict([j \in DOMAIN kept |-> data.keys[kept[j]]],
                  [j \in DOMAIN kept |-> serialized[kept[j]]])
  IN loop([i \in DOMAIN data.items |-> serialize(data.items[i])])

(***************************************************************************)
(* State                                                                   *)
(***************************************************************************)
VARIABLES
  raw_file_lines,        \* File._raw_file_lines, the input
  pc,                    \* where File.__init__ stands: "start", "raw", "header",
                         \* "indi", "fam", "done", "exit" (sys.exit(1)) or
                         \* "crash" (uncaught exception)
  cursor,                \* parse_raw_lines: 1-based index of the next line
  error,                 \* ParseEngine._error
  warnings,              \* ParseEngine._warnings
  top_level_references,  \* ParseEngine._top_level_references: id -> Record
  header_record,         \* ParseEngine._header
  indi_records,          \* ParseEngine._indi_records
  fam_records,           \* ParseEngine._fam_records
  recs,                  \* the Record objects, by identity (creation order)
  stack,                 \* parse_raw_lines: stack of Records in scope
  parsed_records,        \* parse_raw_lines: the top-level result sequence
  file_records,          \* File._records
  file_header,           \* File._header
  file_individuals,      \* File._individuals
  file_families,         \* File._families
  stderr,                \* what dump_messages printed
  exit_status,           \* the status sys.exit was called with, 0 while running
  executed,              \* the stage callbacks run() has invoked, in order
  entity_data,           \* EntityContainer._data of the container being pruned
  cleaned_data           \* what prune_data returned, Nothing before the call

vars == <<raw_file_lines, pc, cursor, error, warnings, top_level_references,
          header_record, indi_records, fam_records, recs, stack, parsed_records,
          file_records, file_header, file_individuals, file_families,
          stderr, exit_status, executed, entity_data, cleaned_data>>

\* A field of File that run() has not assigned yet / has assigned
Unassigned == [set |-> FALSE, val |-> Nothing]
Assigned(v) == [set |-> TRUE, val |-> v]

registries ==
  [refs |-> top_level_references, header |-> header_record,
   indi |-> indi_records, fam |-> fam_records, warnings |-> warnings]

(***************************************************************************)
(* ParseEngine.run, dump_messages                                          *)
(***************************************************************************)
\* line 44: the callback is invoked only if no error is recorded
run_enter(err) == err = None

\* Variant of run_exits that never terminates the process
run_exits_never(err) == FALSE

\* lines 46-49: with an error recorded after the callback, dump and exit
run_exits(err) == err # None

\* get_warnings()[1] followed by get_error()
dump_messages(warns, err) ==
  [k \in DOMAIN warns |-> <<"[WARNING]", warns[k]>>]
    \o (IF err # None THEN << <<"[ERROR]", err>> >> ELSE <<>>)

(***************************************************************************)
(* ParseEngine.parse_raw_lines, one loop iteration per step                *)
(***************************************************************************)
\* Variant of scope_closed that keeps a Record of the same level open
scope_closed_strict(all, top, level) == all[top].level > level

\* line 96: the Record on top of the stack is closed by a line of this level
scope_closed(all, top, level) == all[top].level >= level

\* lines 96-97: pop while the top entry's level is >= the new level
RECURSIVE pop_scope(_, _, _)
pop_scope(stk, all, level) ==
  IF Len(stk) > 0 /\ scope_closed(all, stk[Len(stk)], level)
  THEN pop_scope(SubSeq(stk, 1, Len(stk) - 1), all, level)
  ELSE stk

BeginParseRawLines ==
  /\ pc = "start"
  /\ IF run_enter(error)
     THEN /\ pc' = "raw"
          /\ executed' = Append(executed, "parse_raw_lines")
          /\ UNCHANGED file_records
     ELSE /\ pc' = "header"
          /\ file_records' = Assigned(Nothing)
          /\ UNCHANGED executed
  /\ cursor' = 1
  /\ stack' = <<>>
  /\ parsed_records' = <<>>
  /\ UNCHANGED <<entity_data, cleaned_data, raw_file_lines, error, warnings, top_level_references,
                 header_record, indi_records, fam_records, recs,
                 file_header, file_individuals, file_families, stderr, exit_status>>

ParseRawLine ==
  /\ pc = "raw"
  /\ cursor <= Len(raw_file_lines)
  /\ \E idx \in {Len(recs) + 1} :
     \E r \in {parse_raw_line(raw_file_lines[cursor], idx, registries)} :
        /\ top_level_references' = r.reg.refs
        /\ header_record' = r.reg.header
        /\ indi_records' = r.reg.indi
        /\ fam_records' = r.reg.fam
        /\ warnings' = r.reg.warnings
        /\ error' = IF r.error # None THEN r.error ELSE error
        /\ IF r.crash
           THEN /\ pc' = "crash"
                /\ recs' = recs \o r.made
                /\ UNCHANGED <<stack, parsed_records, cursor, stderr, exit_status, file_records>>
           ELSE IF r.record = Nothing
           THEN \* return None; run() finds the error, dumps and exits
                /\ recs' = recs \o r.made
                /\ IF run_exits(error')
                   THEN /\ pc' = "exit"
                        /\ stderr' = dump_messages(r.reg.warnings, error')
                        /\ exit_status' = 1
                        /\ UNCHANGED file_records
                   ELSE /\ pc' = "header"
                        /\ file_records' = Assigned(Nothing)
                        /\ UNCHANGED <<stderr, exit_status>>
                /\ UNCHANGED <<stack, parsed_records, cursor>>
           ELSE LET record == r.record[1]
                    popped == pop_scope(stack, recs, record.level)
                IN /\ IF Len(popped) > 0
                      THEN /\ recs' = Append([recs EXCEPT ![popped[Len(popped)]].child_records
                                                             = Append(@, idx)], record)
                           /\ UNCHANGED parsed_records
                      ELSE /\ recs' = Append(recs, record)
                           /\ parsed_records' = Append(parsed_records, idx)
                   /\ stack' = Append(popped, idx)
                   /\ cursor' = cursor + 1
                   /\ pc' = "raw"
                   /\ UNCHANGED <<stderr, exit_status, file_records>>
  /\ UNCHANGED <<entity_data, cleaned_data, raw_file_lines, file_header, file_individuals, file_families, executed>>

ReturnParsedRecords ==
  /\ pc = "raw"
  /\ cursor > Len(raw_file_lines)
  /\ IF run_exits(error)
     THEN /\ pc' = "exit"
          /\ stderr' = dump_messages(warnings, error)
          /\ exit_status' = 1
          /\ UNCHANGED file_records
     ELSE /\ pc' = "header"
          /\ file_records' = Assigned(Some(parsed_records))
          /\ UNCHANGED <<stderr, exit_status>>
  /\ UNCHANGED <<entity_data, cleaned_data, raw_file_lines, cursor, error, warnings, top_level_references,
                 header_record, indi_records, fam_records, recs, stack, parsed_records,
                 file_header, file_individuals, file_families, executed>>

(***************************************************************************)
(* ParseEngine.parse_date                                                  *)
(***************************************************************************)
CalendarType_GREGORIAN == <<"@", "#", "D", "G", "R", "E", "G", "O", "R", "I", "A", "N", "@">>
DateRange_BET == <<"B", "E", "T">>

\* src/entity.py, Date.__init__: the fields parse_date can set.  day, year
\* and julianAlternativeYear are '' (Nothing) or an int; the nested
\* period and range dictionaries are never written and are left out.
Date ==
  [calendar |-> CalendarType_GREGORIAN, type |-> "regular", phrase |-> <<>>,
   approximationType |-> <<>>, day |-> Nothing, month |-> <<>>, year |-> Nothing,
   julianAlternativeYear |-> Nothing, isBC |-> "N"]

\* Date.set_regular_is_bc
set_regular_is_bc(date, is_bc) == [date EXCEPT !.isBC = IF is_bc THEN "Y" ELSE "N"]

\* Outcomes of a step of parse_date: a Date, a Date downgraded to a phrase
\* with a warning, a fatal error, or an uncaught exception
pd_date(date)    == [kind |-> "date", date |-> date, msg |-> None]
pd_warning(msg)  == [kind |-> "warning", date |-> Date, msg |-> msg]
pd_error(msg)    == [kind |-> "error", date |-> Date, msg |-> msg]
pd_crash         == [kind |-> "crash", date |-> Date, msg |-> None]

\* lines 554-580; value is Nothing for None
strip_and_set_calendar_type(line_value) ==
  LET at_count == count(line_value, "@") IN
  IF at_count = 1
  THEN [error |-> "MalformedCalendar", value |-> Nothing, calendar |-> CalendarType_GREGORIAN]
  ELSE IF at_count = 2
  THEN LET l == CHOOSE k \in DOMAIN line_value :
                  line_value[k] = "@" /\ \A j \in 1..(k - 1) : line_value[j] # "@"
           r == CHOOSE k \in DOMAIN line_value :
                  line_value[k] = "@" /\ \A j \in (k + 1)..Len(line_value) : line_value[j] # "@"
           calendar == SubSeq(line_value, l, r)
       IN IF l # 1
          THEN [error |-> "MisplacedCalendar", value |-> Nothing,
                calendar |-> CalendarType_GREGORIAN]
          ELSE IF calendar \notin CalendarType
          THEN [error |-> "UnknownCalendar", value |-> Nothing,
                calendar |-> CalendarType_GREGORIAN]
          ELSE [error |-> None,
                value |-> Some(lstrip(remove_sub(line_value, calendar), " ")),
                calendar |-> calendar]
  ELSE [error |-> None, value |-> Some(line_value), calendar |-> CalendarType_GREGORIAN]

\* lines 582-618; type is Nothing for None
determine_date_type(tokens) ==
  IF Len(tokens) = 0 THEN [error |-> None, type |-> Nothing]
  ELSE
    LET token_one == rstrip(upper(tokens[1]), ".")
        token_two == IF Len(tokens) > 1 THEN rstrip(upper(tokens[2]), ".") ELSE <<>>
    IN IF token_one \in DatePeriod THEN [error |-> None, type |-> Some("period")]
       ELSE IF token_one \in DateRange
       THEN IF token_one = DateRange_BET /\ <<"A", "N", "D">> \notin Range(tokens)
            THEN [error |-> "BetWithoutAnd", type |-> Nothing]
            ELSE IF token_two = <<"A", "N", "D">>
            THEN [error |-> "MisplacedAnd", type |-> Nothing]
            ELSE [error |-> None, type |-> Some("range")]
       ELSE IF token_one \in DateApproximated
       THEN [error |-> None, type |-> Some("approximated")]
       ELSE IF token_one = <<"I", "N", "T">> THEN [error |-> None, type |-> Some("regular")]
       ELSE IF token_one = <<"(">>
       THEN IF tokens[Len(tokens)] # <<")">>
            THEN [error |-> "UnclosedPhrase", type |-> Nothing]
            ELSE [error |-> None, type |-> Some("phrase")]
       ELSE [error |-> None, type |-> Some("regular")]

\* lines 647-679: a single token.  utils has no strip_BC, so a token that
\* contains B.C. or BC ends the call with an uncaught AttributeError.
gregorian_one_token(tokens, date) ==
  LET year == tokens[1] IN
  IF contains(year, <<"B", ".", "C", ".">>) \/ contains(year, <<"B", "C">>)
  THEN pd_crash
  ELSE
    LET date1 == set_regular_is_bc(date, FALSE)
        year_slash_count == count(year, "/")
        parts == split_on(year, "/")
    IN IF year_slash_count = 0
       THEN IF ~isdigit(year) THEN pd_warning("InvalidYear")
            ELSE pd_date([date1 EXCEPT !.year = Some(int(year))])
       ELSE IF year_slash_count = 1
       THEN IF ~isdigit(parts[1]) THEN pd_warning("InvalidYear")
            ELSE IF ~isdigit(parts[2]) THEN pd_warning("InvalidJulianAlternative")
            ELSE pd_date([date1 EXCEPT !.year = Some(int(parts[1])),
                                       !.julianAlternativeYear = Some(int(parts[2]))])
       ELSE pd_error("TooManySlashes")

\* lines 680-698: <year> B.C. or <month> <year>
gregorian_two_tokens(tokens, date) ==
  IF tokens[2] = <<"B", ".", "C", ".">> \/ tokens[2] = <<"B", "C">>
  THEN LET year == tokens[1] IN
       IF ~isdigit(year) THEN pd_warning("InvalidYear")
       ELSE pd_date([set_regular_is_bc(date, TRUE) EXCEPT !.year = Some(int(year))])
  ELSE LET month == strip(upper(tokens[1]), ".")
           year  == tokens[2]
       IN IF month \notin Month THEN pd_warning("InvalidMonth")
          ELSE IF ~isdigit(year) THEN pd_warning("InvalidYear")
          ELSE pd_date([set_regular_is_bc(date, FALSE) EXCEPT
                          !.month = month, !.year = Some(int(year))])

\* Variant of gregorian_three_tokens that stores the day and the year swapped
gregorian_three_tokens_swapped(tokens, date) ==
  LET day   == tokens[1]
      month == strip(upper(tokens[2]), ".")
      year  == tokens[3]
  IN IF ~isdigit(day) THEN pd_warning("InvalidDay")
     ELSE IF ~isdigit(year) THEN pd_warning("InvalidYear")
     ELSE IF month \notin Month THEN pd_warning("InvalidMonth")
     ELSE pd_date([date EXCEPT !.day = Some(int(year)), !.year = Some(int(day)),
                               !.month = month])

\* lines 699-720: <day> <month> <year>
gregorian_three_tokens(tokens, date) ==
  LET day   == tokens[1]
      month == strip(upper(tokens[2]), ".")
      year  == tokens[3]
  IN IF ~isdigit(day) THEN pd_warning("InvalidDay")
     ELSE IF ~isdigit(year) THEN pd_warning("InvalidYear")
     ELSE IF month \notin Month THEN pd_warning("InvalidMonth")
     ELSE pd_date([date EXCEPT !.day = Some(int(day)), !.year = Some(int(year)),
                               !.month = month])

\* lines 644-751: decoding by calendar; only Gregorian regular dates of one
\* to three tokens are decoded, everything else is returned as classified
decode_date(tokens, date) ==
  IF date.calendar = CalendarType_GREGORIAN /\ date.type = "regular"
  THEN IF Len(tokens) = 1 THEN gregorian_one_token(tokens, date)
       ELSE IF Len(tokens) = 2 THEN gregorian_two_tokens(tokens, date)
       ELSE IF Len(tokens) = 3 THEN gregorian_three_tokens(tokens, date)
       ELSE pd_date(date)
  ELSE pd_date(date)

\* Variant of first_error that always stores the new message
first_error_overwritten(current, msg) == msg

\* line 639: `self._error = self._error if self._error else <msg>`, after
\* determine_date_type may have written the slot
first_error(current, msg) == IF current # None THEN current ELSE msg

\* The whole call.  Result: date (Nothing for None), the error slot and the
\* warning log afterwards, and whether an exception escaped.
parse_date(record, err_in, warns) ==
  LET cal == strip_and_set_calendar_type(record.line_value)
      none(err) == [date |-> Nothing, error |-> err, warnings |-> warns, crash |-> FALSE]
  IN IF cal.value = Nothing THEN none(cal.error)
     ELSE IF cal.value[1] = <<>> THEN none(err_in)
     ELSE
       LET date_line_value == cal.value[1]
           tokens == split(date_line_value)
           dt == determine_date_type(tokens)
       IN IF Len(tokens) = 0 THEN none("NoDateValue")
          ELSE IF dt.type = Nothing
          THEN none(first_error(IF dt.error # None THEN dt.error ELSE err_in,
                                "UndeterminedDateType"))
          ELSE
            LET date == [Date EXCEPT !.calendar = cal.calendar, !.type = dt.type[1]]
                out  == decode_date(tokens, date)
            IN IF out.kind = "crash"
               THEN [date |-> Nothing, error |-> err_in, warnings |-> warns, crash |-> TRUE]
               ELSE IF out.kind = "error" THEN none(out.msg)
               ELSE IF out.kind = "warning"
               THEN [date |-> Some([Date EXCEPT !.type = "phrase",
                                                !.phrase = date_line_value]),
                     error |-> err_in, warnings |-> Append(warns, out.msg), crash |-> FALSE]
               ELSE [date |-> Some(out.date), error |-> err_in, warnings |-> warns,
                     crash |-> FALSE]

(***************************************************************************)
(* ParseEngine.parse_address                                               *)
(***************************************************************************)
\* src/entity.py, Address.__init__
Address ==
  [addressLines |-> <<>>, cityAddress |-> <<>>, stateAddress |-> <<>>,
   zipCode |-> <<>>, countryAddress |-> <<>>, phoneNumber |-> <<>>,
   emailAddress |-> <<>>, faxAddress |-> <<>>, webAddress |-> <<>>]

\* lines 773-794: the children of an ADDR record, from position k
RECURSIVE pa_addr_children(_, _, _, _, _)
pa_addr_children(all, kids, k, address, appending_addr_cont) ==
  IF k > Len(kids) THEN [error |-> None, address |-> address]
  ELSE
    LET addr_child == all[kids[k]] IN
    IF addr_child.tag = Tag.CONT
    THEN IF ~appending_addr_cont
         THEN [error |-> "OutOfOrderCont", address |-> address]
         ELSE pa_addr_children(all, kids, k + 1,
                [address EXCEPT !.addressLines = Append(@, addr_child.line_value)], TRUE)
    ELSE IF addr_child.tag = Tag.CITY
    THEN pa_addr_children(all, kids, k + 1,
           [address EXCEPT !.cityAddress = addr_child.line_value], FALSE)
    ELSE IF addr_child.tag = Tag.STAE
    THEN pa_addr_children(all, kids, k + 1,
           [address EXCEPT !.stateAddress = addr_child.line_value], FALSE)
    ELSE IF addr_child.tag = Tag.POST
    THEN pa_addr_children(all, kids, k + 1,
           [address EXCEPT !.zipCode = addr_child.line_value], FALSE)
    ELSE IF addr_child.tag = Tag.CTRY
    THEN pa_addr_children(all, kids, k + 1,
           [address EXCEPT !.countryAddress = addr_child.line_value], FALSE)
    ELSE [error |-> "UnrecognizedAddressTag", address |-> address]

\* lines 765-805: the children of the record handed to parse_address
RECURSIVE pa_children(_, _, _, _)
pa_children(all, kids, k, address) ==
  IF k > Len(kids) THEN [error |-> None, address |-> address]
  ELSE
    LET child == all[kids[k]] IN
    IF child.tag = Tag.ADDR
    THEN LET inner == pa_addr_children(all, child.child_records, 1,
                        [address EXCEPT !.addressLines = Append(@, child.line_value)], TRUE)
         IN IF inner.error # None THEN inner
            ELSE pa_children(all, kids, k + 1, inner.address)
    ELSE IF child.tag = Tag.PHON
    THEN pa_children(all, kids, k + 1, [address EXCEPT !.phoneNumber = child.line_value])
    ELSE IF child.tag = Tag.EMAIL
    THEN pa_children(all, kids, k + 1, [address EXCEPT !.emailAddress = child.line_value])
    ELSE IF child.tag = Tag.FAX
    THEN pa_children(all, kids, k + 1, [address EXCEPT !.faxAddress = child.line_value])
    ELSE IF child.tag = Tag.WWW
    THEN pa_children(all, kids, k + 1, [address EXCEPT !.webAddress = child.line_value])
    ELSE [error |-> "UnrecognizedAddressTag", address |-> address]

\* Result: address (Nothing for None) and the error set, None if none was
parse_address(all, record) ==
  LET out == pa_children(all, record.child_records, 1, Address) IN
  IF out.error # None THEN [address |-> Nothing, error |-> out.error]
  ELSE [address |-> Some(out.address), error |-> None]

(***************************************************************************)
(* ParseEngine.parse_header                                                *)
(***************************************************************************)
\* src/entity.py, Header.__init__ (the nested dictionaries flattened).  The
\* two date fields are left out: Date.__init__ takes no argument, so both
\* DATE branches end in an uncaught TypeError before a date is stored.
Header ==
  [sourceVersion |-> <<>>, sourceSystemId |-> <<>>, sourceProductName |-> <<>>,
   businessName |-> <<>>, businessAddress |-> Nothing, sourceName |-> <<>>,
   sourceDataCopyright |-> <<>>, receivingSystem |-> <<>>, submittingTo |-> <<>>,
   submittedBy |-> <<>>, fileName |-> <<>>, gedcomFileCopyright |-> <<>>,
   metaVersion |-> <<>>, metaForm |-> <<>>, charSetVersion |-> <<>>,
   charSetType |-> <<>>, language |-> <<>>, placeRecordHierarchy |-> <<>>,
   note |-> <<>>]

ph_out(err, crash, header) == [error |-> err, crash |-> crash, header |-> header]

\* lines 230-243: children of SOUR.DATA
RECURSIVE ph_source_data_children(_, _, _, _)
ph_source_data_children(all, kids, k, header) ==
  IF k > Len(kids) THEN ph_out(None, FALSE, header)
  ELSE
    LET c == all[kids[k]] IN
    IF c.tag = Tag.DATE THEN ph_out(None, TRUE, header)
    ELSE IF c.tag = Tag.COPR
    THEN ph_source_data_children(all, kids, k + 1,
           [header EXCEPT !.sourceDataCopyright = c.line_value])
    ELSE ph_out("UnrecognizedHeaderTag", FALSE, header)

\* lines 215-247: children of SOUR
RECURSIVE ph_source_children(_, _, _, _)
ph_source_children(all, kids, k, header) ==
  IF k > Len(kids) THEN ph_out(None, FALSE, header)
  ELSE
    LET c == all[kids[k]] IN
    IF c.tag = Tag.VERS
    THEN ph_source_children(all, kids, k + 1, [header EXCEPT !.sourceVersion = c.line_value])
    ELSE IF c.tag = Tag.NAME
    THEN ph_source_children(all, kids, k + 1,
           [header EXCEPT !.sourceProductName = c.line_value])
    ELSE IF c.tag = Tag.CORP
    THEN LET named == [header EXCEPT !.businessName = c.line_value]
             a == parse_address(all, c)
         IN IF a.address = Nothing THEN ph_out(a.error, FALSE, named)
            ELSE ph_source_children(all, kids, k + 1,
                   [named EXCEPT !.businessAddress = a.address])
    ELSE IF c.tag = Tag.DATA
    THEN LET d == ph_source_data_children(all, c.child_records, 1,
                    [header EXCEPT !.sourceName = c.line_value])
         IN IF d.error # None \/ d.crash THEN d
            ELSE ph_source_children(all, kids, k + 1, d.header)
    ELSE IF ~is_user_defined_tag(c.tag, TRUE)
    THEN ph_out("UnrecognizedHeaderTag", FALSE, header)
    ELSE ph_source_children(all, kids, k + 1, header)

\* lines 263-272: children of GEDC
RECURSIVE ph_gedc_children(_, _, _, _)
ph_gedc_children(all, kids, k, header) ==
  IF k > Len(kids) THEN ph_out(None, FALSE, header)
  ELSE
    LET c == all[kids[k]] IN
    IF c.tag = Tag.VERS
    THEN ph_gedc_children(all, kids, k + 1, [header EXCEPT !.metaVersion = c.line_value])
    ELSE IF c.tag = Tag.FORM
    THEN ph_gedc_children(all, kids, k + 1,
           IF c.line_value \in Form THEN [header EXCEPT !.metaForm = c.line_value]
           ELSE header)
    ELSE ph_out("UnrecognizedHeaderTag", FALSE, header)

\* lines 275-281: children of CHAR
RECURSIVE ph_char_children(_, _, _, _)
ph_char_children(all, kids, k, header) ==
  IF k > Len(kids) THEN ph_out(None, FALSE, header)
  ELSE
    LET c == all[kids[k]] IN
    IF c.tag = Tag.VERS
    THEN ph_char_children(all, kids, k + 1, [header EXCEPT !.charSetVersion = c.line_value])
    ELSE ph_out("UnrecognizedHeaderTag", FALSE, header)

\* lines 211-301: children of the HEAD record
RECURSIVE ph_children(_, _, _, _)
ph_children(all, kids, k, header) ==
  IF k > Len(kids) THEN ph_out(None, FALSE, header)
  ELSE
    LET record == all[kids[k]]
        next(h) == ph_children(all, kids, k + 1, h)
        nested(d) == IF d.error # None \/ d.crash THEN d ELSE next(d.header)
    IN
    IF record.tag = Tag.SOUR
    THEN nested(ph_source_children(all, record.child_records, 1,
                  [header EXCEPT !.sourceSystemId = record.line_value]))
    ELSE IF record.tag = Tag.DATE THEN ph_out(None, TRUE, header)
    ELSE IF record.tag \in {Tag.SUBM, Tag.SUBN}
    THEN IF is_cross_ref_id(record.cross_ref_ptr) /\ is_valid_cross_ref_id(record.cross_ref_ptr)
         THEN IF record.tag = Tag.SUBM
              THEN next([header EXCEPT !.submittingTo = record.cross_ref_ptr])
              ELSE next([header EXCEPT !.submittedBy = record.cross_ref_ptr])
         ELSE next(header)
    ELSE IF record.tag = Tag.GEDC
    THEN nested(ph_gedc_children(all, record.child_records, 1, header))
    ELSE IF record.tag = Tag.CHAR
    THEN nested(ph_char_children(all, record.child_records, 1,
                  [header EXCEPT !.charSetType = record.line_value]))
    ELSE IF record.tag = Tag.PLAC
    THEN IF Len(record.child_records) = 1 /\ all[record.child_records[1]].tag = Tag.FORM
         THEN next([header EXCEPT !.placeRecordHierarchy =
                      split_on(all[record.child_records[1]].line_value, ",")])
         ELSE ph_out("InvalidHeaderPlacForm", FALSE, header)
    ELSE IF record.tag = Tag.DEST
    THEN next([header EXCEPT !.receivingSystem = record.line_value])
    ELSE IF record.tag = Tag.FILE THEN next([header EXCEPT !.fileName = record.line_value])
    ELSE IF record.tag = Tag.COPR
    THEN next([header EXCEPT !.gedcomFileCopyright = record.line_value])
    ELSE IF record.tag = Tag.LANG THEN next([header EXCEPT !.language = record.line_value])
    ELSE IF record.tag = Tag.NOTE THEN next([header EXCEPT !.note = record.line_value])
    ELSE ph_out("UnrecognizedHeaderTag", FALSE, header)

\* Result: header (Nothing for None), the error set (None if none), and
\* whether an exception escaped
parse_header(all, head) ==
  IF head = Nothing THEN [header |-> Nothing, error |-> "NoHeader", crash |-> FALSE]
  ELSE LET out == ph_children(all, all[head[1]].child_records, 1, Header) IN
       IF out.crash THEN [header |-> Nothing, error |-> None, crash |-> TRUE]
       ELSE IF out.error # None THEN [header |-> Nothing, error |-> out.error, crash |-> FALSE]
       ELSE [header |-> Some(out.header), error |-> None, crash |-> FALSE]

(***************************************************************************)
(* ParseEngine.parse_indi_records                                          *)
(***************************************************************************)
\* src/entity.py, NamePiece.__init__
NamePiece ==
  [surname |-> <<>>, prefix |-> <<>>, given |-> <<>>, nickname |-> <<>>,
   surnamePrefix |-> <<>>, suffix |-> <<>>]

\* src/entity.py, Name.__init__ (the three dictionaries flattened)
Name ==
  [type |-> <<"m", "a", "i", "n">>, value |-> <<>>, namePieces |-> NamePiece,
   nameNote |-> <<>>, nameSourceCitation |-> <<>>,
   phoneticType |-> <<>>, phoneticValue |-> <<>>, phoneticNamePieces |-> NamePiece,
   phoneticNote |-> <<>>, phoneticSourceCitation |-> <<>>,
   romanizedType |-> <<>>, romanizedValue |-> <<>>, romanizedNamePieces |-> NamePiece,
   romanizedNote |-> <<>>, romanizedSourceCitation |-> <<>>]

\* src/entity.py, Event.__init__ / IndividualEvent.__init__: the fields
\* parse_indi_records sets
IndividualEvent ==
  [explicitEventType |-> "", genericEventType |-> <<>>, lineValue |-> <<>>,
   eventDate |-> Nothing, eventAddress |-> Nothing]

\* enums.Sex(value), by member name
Sex(value) ==
  IF value = <<"M">> THEN "MALE" ELSE IF value = <<"F">> THEN "FEMALE" ELSE "UNKNOWN"

\* src/entity.py, Individual.__init__: the fields parse_indi_records sets
Individual(cross_ref_id) ==
  [crossReferenceId |-> cross_ref_id, sex |-> "UNKNOWN", names |-> <<>>,
   individualEvents |-> <<>>]

NamePieceTags == {Tag.NPFX, Tag.GIVN, Tag.NICK, Tag.SPFX, Tag.SURN, Tag.NSFX}

\* lines 392-413
RECURSIVE name_pieces_from(_, _, _, _)
name_pieces_from(all, kids, k, piece) ==
  IF k > Len(kids) THEN piece
  ELSE
    LET child == all[kids[k]] IN
    name_pieces_from(all, kids, k + 1,
      IF child.tag = Tag.NPFX THEN [piece EXCEPT !.prefix = child.line_value]
      ELSE IF child.tag = Tag.GIVN THEN [piece EXCEPT !.given = child.line_value]
      ELSE IF child.tag = Tag.NICK THEN [piece EXCEPT !.nickname = child.line_value]
      ELSE IF child.tag = Tag.SPFX THEN [piece EXCEPT !.surnamePrefix = child.line_value]
      ELSE IF child.tag = Tag.SURN THEN [piece EXCEPT !.surname = child.line_value]
      ELSE IF child.tag = Tag.NSFX THEN [piece EXCEPT !.suffix = child.line_value]
      ELSE piece)

parse_name_pieces(all, record) == name_pieces_from(all, record.child_records, 1, NamePiece)

\* lines 441-455: children of FONE
RECURSIVE pi_phonetic_children(_, _, _, _)
pi_phonetic_children(all, kids, k, name) ==
  IF k > Len(kids) THEN [error |-> None, name |-> name]
  ELSE
    LET c == all[kids[k]] IN
    IF c.tag = Tag.TYPE
    THEN IF c.line_value \notin PhoneticType
         THEN [error |-> "InvalidPhoneticType", name |-> name]
         ELSE pi_phonetic_children(all, kids, k + 1, [name EXCEPT !.phoneticType = c.line_value])
    ELSE IF c.tag = Tag.NOTE
    THEN pi_phonetic_children(all, kids, k + 1, [name EXCEPT !.phoneticNote = c.line_value])
    ELSE IF c.tag = Tag.SOUR
    THEN pi_phonetic_children(all, kids, k + 1,
           [name EXCEPT !.phoneticSourceCitation = c.cross_ref_ptr])
    ELSE IF ~is_user_defined_tag(c.tag, TRUE)
    THEN [error |-> "UnrecognizedIndividualTag", name |-> name]
    ELSE pi_phonetic_children(all, kids, k + 1, name)

\* lines 460-474: children of ROMN
RECURSIVE pi_romanized_children(_, _, _, _)
pi_romanized_children(all, kids, k, name) ==
  IF k > Len(kids) THEN [error |-> None, name |-> name]
  ELSE
    LET c == all[kids[k]] IN
    IF c.tag = Tag.TYPE
    THEN IF c.line_value \notin RomanizedType
         THEN [error |-> "InvalidRomanizedType", name |-> name]
         ELSE pi_romanized_children(all, kids, k + 1,
                [name EXCEPT !.romanizedType = c.line_value])
    ELSE IF c.tag = Tag.NOTE
    THEN pi_romanized_children(all, kids, k + 1, [name EXCEPT !.romanizedNote = c.line_value])
    ELSE IF c.tag = Tag.SOUR
    THEN pi_romanized_children(all, kids, k + 1,
           [name EXCEPT !.romanizedSourceCitation = c.cross_ref_ptr])
    ELSE IF ~is_user_defined_tag(c.tag, TRUE)
    THEN [error |-> "UnrecognizedIndividualTag", name |-> name]
    ELSE pi_romanized_children(all, kids, k + 1, name)

\* lines 426-488: children of the NAME record child.  NOTE and SOUR read
\* the NAME record itself (child), as the code does.
RECURSIVE pi_name_children(_, _, _, _, _)
pi_name_children(all, child, kids, k, name) ==
  IF k > Len(kids) THEN [error |-> None, name |-> name]
  ELSE
    LET name_child == all[kids[k]]
        next(n) == pi_name_children(all, child, kids, k + 1, n)
        nested(d) == IF d.error # None THEN d ELSE next(d.name)
    IN
    IF name_child.tag = Tag.TYPE
    THEN IF name_child.line_value \notin NameType
         THEN [error |-> "InvalidNameType", name |-> name]
         ELSE next([name EXCEPT !.type = name_child.line_value])
    ELSE IF name_child.tag = Tag.NOTE THEN next([name EXCEPT !.nameNote = child.line_value])
    ELSE IF name_child.tag = Tag.SOUR
    THEN next([name EXCEPT !.nameSourceCitation = child.cross_ref_ptr])
    ELSE IF name_child.tag = Tag.FONE
    THEN nested(pi_phonetic_children(all, name_child.child_records, 1,
                  [name EXCEPT !.phoneticValue = name_child.line_value,
                               !.phoneticNamePieces = parse_name_pieces(all, name_child)]))
    ELSE IF name_child.tag = Tag.ROMN
    THEN nested(pi_romanized_children(all, name_child.child_records, 1,
                  [name EXCEPT !.romanizedValue = name_child.line_value,
                               !.romanizedNamePieces = parse_name_pieces(all, name_child)]))
    ELSE IF name_child.tag \in NamePieceTags THEN next(name)
    ELSE IF ~is_user_defined_tag(name_child.tag, TRUE)
    THEN [error |-> "UnrecognizedIndividualTag", name |-> name]
    ELSE next(name)

\* Variant of name_of that keeps the slashes of the NAME line value
name_of_raw(all, child) ==
  [Name EXCEPT !.value = child.line_value,
               !.namePieces = parse_name_pieces(all, child)]

\* lines 420-425: the Name built from the NAME record before its children
name_of(all, child) ==
  [Name EXCEPT !.value = remove_char(child.line_value, "/"),
               !.namePieces = parse_name_pieces(all, child)]

\* Outcome of a loop of parse_indi_records: gave_up is TRUE when the code
\* returned None; error and warns are the slot and the log afterwards
pi_out(gave_up, err, crash, warns, val) ==
  [gave_up |-> gave_up, error |-> err, crash |-> crash, warnings |-> warns, val |-> val]

\* lines 503-537: children of an event record
RECURSIVE pi_event_children(_, _, _, _, _, _)
pi_event_children(all, kids, k, event, err_in, warns) ==
  IF k > Len(kids) THEN pi_out(FALSE, err_in, FALSE, warns, event)
  ELSE
    LET event_child == all[kids[k]] IN
    IF event_child.tag = Tag.TYPE
    THEN pi_event_children(all, kids, k + 1,
           [event EXCEPT !.genericEventType = event_child.line_value], err_in, warns)
    ELSE IF event_child.tag = Tag.DATE
    THEN LET with_date(d) ==
               IF d.crash THEN pi_out(TRUE, d.error, TRUE, d.warnings, event)
               ELSE IF d.date = Nothing THEN pi_out(TRUE, d.error, FALSE, d.warnings, event)
               ELSE pi_event_children(all, kids, k + 1, [event EXCEPT !.eventDate = d.date],
                                      d.error, d.warnings)
         IN with_date(parse_date(event_child, err_in, warns))
    ELSE IF event_child.tag = Tag.ADDR
    THEN LET with_address(a) ==
               IF a.address = Nothing THEN pi_out(TRUE, a.error, FALSE, warns, event)
               ELSE pi_event_children(all, kids, k + 1,
                      [event EXCEPT !.eventAddress = a.address], err_in, warns)
         IN with_address(parse_address(all, event_child))
    ELSE IF event_child.tag \in {Tag.PLAC, Tag.AGNC, Tag.RELI, Tag.CAUS, Tag.RESN,
                                 Tag.NOTE, Tag.SOUR, Tag.OBJE}
    THEN pi_event_children(all, kids, k + 1, event, err_in, warns)
    ELSE IF ~is_user_defined_tag(event_child.tag, TRUE)
    THEN pi_out(TRUE, "UnrecognizedIndividualTag", FALSE, warns, event)
    ELSE pi_event_children(all, kids, k + 1, event, err_in, warns)

\* lines 418-541: children of an INDI record
RECURSIVE pi_children(_, _, _, _, _, _)
pi_children(all, kids, k, individual, err_in, warns) ==
  IF k > Len(kids) THEN pi_out(FALSE, err_in, FALSE, warns, individual)
  ELSE
    LET child == all[kids[k]] IN
    IF child.tag = Tag.NAME
    THEN LET with_name(n) ==
               IF n.error # None THEN pi_out(TRUE, n.error, FALSE, warns, individual)
               ELSE pi_children(all, kids, k + 1,
                      [individual EXCEPT !.names = Append(@, n.name)], err_in, warns)
         IN with_name(pi_name_children(all, child, child.child_records, 1,
                                       name_of(all, child)))
    ELSE IF child.tag = Tag.SEX
    THEN IF child.line_value = <<>>
         THEN pi_children(all, kids, k + 1, [individual EXCEPT !.sex = "UNKNOWN"],
                          err_in, warns)
         ELSE IF child.line_value \notin SexValues
         THEN pi_out(TRUE, "InvalidSex", FALSE, warns, individual)
         ELSE pi_children(all, kids, k + 1,
                [individual EXCEPT !.sex = Sex(child.line_value)], err_in, warns)
    ELSE IF child.tag \in DOMAIN event_type_individual
    THEN LET with_event(e) ==
               IF e.gave_up THEN pi_out(TRUE, e.error, e.crash, e.warnings, individual)
               ELSE pi_children(all, kids, k + 1,
                      [individual EXCEPT !.individualEvents = Append(@, e.val)],
                      e.error, e.warnings)
         IN with_event(pi_event_children(all, child.child_records, 1,
                         [IndividualEvent EXCEPT
                            !.explicitEventType = event_type_individual[child.tag],
                            !.lineValue = child.line_value], err_in, warns))
    ELSE pi_children(all, kids, k + 1, individual, err_in, warns)

\* lines 415-545: the INDI records in order; val is the pair of the
\* individuals built so far and the Records with their Individual attached
RECURSIVE pi_records(_, _, _, _, _, _)
pi_records(all, indis, k, individuals, err_in, warns) ==
  IF k > Len(indis) THEN pi_out(FALSE, err_in, FALSE, warns, <<individuals, all>>)
  ELSE
    LET record == all[indis[k]]
        with_individual(r) ==
          IF r.gave_up THEN pi_out(TRUE, r.error, r.crash, r.warnings, <<individuals, all>>)
          ELSE pi_records([all EXCEPT ![indis[k]].individual = Some(r.val)], indis, k + 1,
                          Append(individuals, r.val), r.error, r.warnings)
    IN with_individual(pi_children(all, record.child_records, 1,
                                   Individual(record.cross_ref_id), err_in, warns))

\* Result: individuals (Nothing for None), the error slot and the warning
\* log afterwards, whether an exception escaped, and the Records
parse_indi_records(all, indis, err_in, warns) ==
  LET result(out) ==
        [individuals |-> IF out.gave_up THEN Nothing ELSE Some(out.val[1]),
         error |-> out.error, warnings |-> out.warnings, crash |-> out.crash,
         recs |-> out.val[2]]
  IN result(pi_records(all, indis, 1, <<>>, err_in, warns))

(***************************************************************************)
(* ParseEngine.parse_fam_records                                           *)
(***************************************************************************)
\* src/entity.py, Family.__init__: the fields parse_fam_records sets
Family(cross_ref_id) ==
  [crossReferenceId |-> cross_ref_id, restrictionNotice |-> <<>>,
   parentOne |-> Nothing, parentTwo |-> Nothing, children |-> <<>>]

FamilyEventTags ==
  {Tag.ANUL, Tag.CENS, Tag.DIV, Tag.DIVF, Tag.ENGA, Tag.MARB, Tag.MARC, Tag.MARR,
   Tag.MARL, Tag.MARS, Tag.RESI, Tag.EVEN}

\* Variant of resolve_member that reports one error kind for both failures
resolve_member_one_kind(all, refs, child, family) ==
  LET child_pointer == child.cross_ref_ptr IN
  IF child_pointer \in DOMAIN refs /\ all[refs[child_pointer]].individual # Nothing
  THEN LET referenced_indi == all[refs[child_pointer]].individual IN
       IF child.tag = Tag.HUSB
       THEN [error |-> None, family |-> [family EXCEPT !.parentOne = referenced_indi]]
       ELSE IF child.tag = Tag.WIFE
       THEN [error |-> None, family |-> [family EXCEPT !.parentTwo = referenced_indi]]
       ELSE [error |-> None,
             family |-> [family EXCEPT !.children = Append(@, referenced_indi[1])]]
  ELSE [error |-> "ReferencedRecordDoesNotExist", family |-> family]

\* lines 343-363: resolve the pointer of a HUSB, WIFE or CHIL child
resolve_member(all, refs, child, family) ==
  LET child_pointer == child.cross_ref_ptr IN
  IF child_pointer \in DOMAIN refs
  THEN LET referenced_indi == all[refs[child_pointer]].individual IN
       IF referenced_indi = Nothing
       THEN [error |-> "ReferencedIndividualDoesNotExist", family |-> family]
       ELSE IF child.tag = Tag.HUSB
       THEN [error |-> None, family |-> [family EXCEPT !.parentOne = referenced_indi]]
       ELSE IF child.tag = Tag.WIFE
       THEN [error |-> None, family |-> [family EXCEPT !.parentTwo = referenced_indi]]
       ELSE [error |-> None,
             family |-> [family EXCEPT !.children = Append(@, referenced_indi[1])]]
  ELSE [error |-> "ReferencedRecordDoesNotExist", family |-> family]

\* lines 321-375: children of a FAM record
RECURSIVE pf_children(_, _, _, _, _, _)
pf_children(all, refs, record, kids, k, family) ==
  IF k > Len(kids) THEN [error |-> None, family |-> family]
  ELSE
    LET child == all[kids[k]]
        next(f) == pf_children(all, refs, record, kids, k + 1, f)
    IN
    IF child.tag = Tag.RESN
    THEN IF child.line_value \notin Restriction
         THEN [error |-> "InvalidRestrictionNotice", family |-> family]
         ELSE next([family EXCEPT !.restrictionNotice = child.line_value])
    ELSE IF child.tag \in FamilyEventTags THEN next(family)
    ELSE IF child.tag \in {Tag.HUSB, Tag.WIFE, Tag.CHIL}
    THEN LET m == resolve_member(all, refs, child, family) IN
         IF m.error # None THEN m ELSE next(m.family)
    ELSE IF child.tag \in {Tag.NCHI, Tag.SUBM, Tag.REFN, Tag.RIN} THEN next(family)
    ELSE IF ~is_user_defined_tag(child.tag, TRUE)
    THEN [error |-> "UnrecognizedFamilyTag", family |-> family]
    ELSE next(family)

\* lines 318-379: the FAM records in order
RECURSIVE pf_records(_, _, _, _, _)
pf_records(all, refs, fams, k, families) ==
  IF k > Len(fams) THEN [error |-> None, families |-> families]
  ELSE
    LET record == all[fams[k]]
        f == pf_children(all, refs, record, record.child_records, 1,
                         Family(record.cross_ref_id))
    IN IF f.error # None THEN [error |-> f.error, families |-> families]
       ELSE pf_records(all, refs, fams, k + 1, Append(families, f.family))

\* Result: families (Nothing for None) and the error set, None if none was
parse_fam_records(all, refs, fams) ==
  LET out == pf_records(all, refs, fams, 1, <<>>) IN
  IF out.error # None THEN [families |-> Nothing, error |-> out.error]
  ELSE [families |-> Some(out.families), error |-> None]

(***************************************************************************)
(* File.__init__, lines 29-32: the three structure passes through run()    *)
(***************************************************************************)
RunParseHeader ==
  /\ pc = "header"
  /\ IF run_enter(error)
     THEN \E r \in {parse_header(recs, header_record)} :
          /\ executed' = Append(executed, "parse_header")
          /\ error' = IF r.error # None THEN r.error ELSE error
          /\ IF r.crash
             THEN /\ pc' = "crash"
                  /\ UNCHANGED <<file_header, stderr, exit_status>>
             ELSE IF run_exits(error')
             THEN /\ pc' = "exit"
                  /\ stderr' = dump_messages(warnings, error')
                  /\ exit_status' = 1
                  /\ UNCHANGED file_header
             ELSE /\ pc' = "indi"
                  /\ file_header' = Assigned(r.header)
                  /\ UNCHANGED <<stderr, exit_status>>
     ELSE /\ pc' = "indi"
          /\ file_header' = Assigned(Nothing)
          /\ UNCHANGED <<executed, error, stderr, exit_status>>
  /\ UNCHANGED <<entity_data, cleaned_data, raw_file_lines, cursor, warnings, top_level_references, header_record,
                 indi_records, fam_records, recs, stack, parsed_records,
                 file_records, file_individuals, file_families>>

RunParseIndiRecords ==
  /\ pc = "indi"
  /\ IF run_enter(error)
     THEN \E r \in {parse_indi_records(recs, indi_records, error, warnings)} :
          /\ executed' = Append(executed, "parse_indi_records")
          /\ error' = r.error
          /\ warnings' = r.warnings
          /\ recs' = r.recs
          /\ IF r.crash
             THEN /\ pc' = "crash"
                  /\ UNCHANGED <<file_individuals, stderr, exit_status>>
             ELSE IF run_exits(error')
             THEN /\ pc' = "exit"
                  /\ stderr' = dump_messages(warnings', error')
                  /\ exit_status' = 1
                  /\ UNCHANGED file_individuals
             ELSE /\ pc' = "fam"
                  /\ file_individuals' = Assigned(r.individuals)
                  /\ UNCHANGED <<stderr, exit_status>>
     ELSE /\ pc' = "fam"
          /\ file_individuals' = Assigned(Nothing)
          /\ UNCHANGED <<executed, error, warnings, recs, stderr, exit_status>>
  /\ UNCHANGED <<entity_data, cleaned_data, raw_file_lines, cursor, top_level_references, header_record,
                 indi_records, fam_records, stack, parsed_records,
                 file_records, file_header, file_families>>

RunParseFamRecords ==
  /\ pc = "fam"
  /\ IF run_enter(error)
     THEN \E r \in {parse_fam_records(recs, top_level_references, fam_records)} :
          /\ executed' = Append(executed, "parse_fam_records")
          /\ error' = IF r.error # None THEN r.error ELSE error
          /\ IF run_exits(error')
             THEN /\ pc' = "exit"
                  /\ stderr' = dump_messages(warnings, error')
                  /\ exit_status' = 1
                  /\ UNCHANGED file_families
             ELSE /\ pc' = "done"
                  /\ file_families' = Assigned(r.families)
                  /\ UNCHANGED <<stderr, exit_status>>
     ELSE /\ pc' = "done"
          /\ file_families' = Assigned(Nothing)
          /\ UNCHANGED <<executed, error, stderr, exit_status>>
  /\ UNCHANGED <<entity_data, cleaned_data, raw_file_lines, cursor, warnings, top_level_references, header_record,
                 indi_records, fam_records, recs, stack, parsed_records,
                 file_records, file_header, file_individuals>>

\* A call of prune_data on a container
PruneData ==
  /\ cleaned_data = Nothing
  /\ cleaned_data' = Some(prune_data(entity_data))
  /\ UNCHANGED <<entity_data, raw_file_lines, pc, cursor, error, warnings,
                 top_level_references, header_record, indi_records, fam_records,
                 recs, stack, parsed_records, file_records, file_header,
                 file_individuals, file_families, stderr, exit_status, executed>>

NextPrune == PruneData

Next ==
  \/ BeginParseRawLines
  \/ ParseRawLine
  \/ ReturnParsedRecords
  \/ RunParseHeader
  \/ RunParseIndiRecords
  \/ RunParseFamRecords

\* ParseEngine.__init__ and the File fields before the first run()
Idle ==
  /\ pc = "start"
  /\ cursor = 1
  /\ error = None
  /\ warnings = <<>>
  /\ top_level_references = <<>>
  /\ header_record = Nothing
  /\ indi_records = <<>>
  /\ fam_records = <<>>
  /\ recs = <<>>
  /\ stack = <<>>
  /\ parsed_records = <<>>
  /\ file_records = Unassigned
  /\ file_header = Unassigned
  /\ file_individuals = Unassigned
  /\ file_families = Unassigned
  /\ stderr = <<>>
  /\ exit_status = 0
  /\ executed = <<>>

\* The pipeline at its start; no container is being pruned
Fresh ==
  /\ Idle
  /\ entity_data = <<>>
  /\ cleaned_data = Nothing

(***************************************************************************)
(* Inputs: raw lines are written token by token and joined with a space,   *)
(* the tokenizer splits them again                                         *)
(***************************************************************************)
SeqsUpTo(S, n) == UNION {[1..k -> S] : k \in 0..n}

RECURSIVE concat(_)
concat(seqs) == IF seqs = <<>> THEN <<>> ELSE seqs[1] \o concat(Tail(seqs))

\* str(level) for a level below 100
level_token(l) == IF l < 10 THEN <<DigitChars[l + 1]>>
                  ELSE <<DigitChars[(l \div 10) + 1], DigitChars[(l % 10) + 1]>>

id_I1 == <<"@", "I", "1", "@">>
id_I2 == <<"@", "I", "2", "@">>
id_I3 == <<"@", "I", "3", "@">>
id_I4 == <<"@", "I", "4", "@">>
id_F1 == <<"@", "F", "1", "@">>
id_F2 == <<"@", "F", "2", "@">>
id_X == <<"@", "X", "@">>
txt_John == <<"J", "o", "h", "n">>
txt_Smith == <<"/", "S", "m", "i", "t", "h", "/">>
txt_John_Smith == <<"J", "o", "h", "n", " ", "S", "m", "i", "t", "h">>
txt_M == <<"M">>
txt_123 == <<"1", "2", "3">>
txt_BOGUS == <<"B", "O", "G", "U", "S">>
txt_a == <<"a">>
txt_Smith_open == <<"/", "S", "m", "i", "t", "h">>
txt_Jones_close == <<"J", "o", "n", "e", "s", "/">>
txt_Smith_bare == <<"S", "m", "i", "t", "h">>
d_15 == <<"1", "5">>
d_45 == <<"4", "5">>
d_JAN == <<"J", "A", "N">>
d_1990 == <<"1", "9", "9", "0">>
d_1990_91 == <<"1", "9", "9", "0", "/", "9", "1">>
d_1_2_3 == <<"1", "/", "2", "/", "3">>
d_1_2_3BC == <<"1", "/", "2", "/", "3", "B", "C">>
d_ABT == <<"A", "B", "T">>
d_BC == <<"B", "C">>
d_at == <<"@">>
d_open == <<"(">>
d_close == <<")">>
d_FROM == <<"F", "R", "O", "M">>
d_TO == <<"T", "O">>
d_BEF == <<"B", "E", "F">>
d_AFT == <<"A", "F", "T">>
d_BET == <<"B", "E", "T">>
d_CAL == <<"C", "A", "L">>
d_EST == <<"E", "S", "T">>
d_INT == <<"I", "N", "T">>
d_AND == <<"A", "N", "D">>
d_dot == <<".">>
d_open_1990 == <<"(", "1", "9", "9", "0">>
d_JULIAN == <<"@", "#", "D", "J", "U", "L", "I", "A", "N", "@">>

line_HEAD == join(<<level_token(0), Tag.HEAD>>)
line_INDI(id) == join(<<level_token(0), id, Tag.INDI>>)
line_NAME == join(<<level_token(1), Tag.NAME, txt_John, txt_Smith>>)
line_SEX == join(<<level_token(1), Tag.SEX, txt_M>>)
line_FAM(id) == join(<<level_token(0), id, Tag.FAM>>)
line_member(tag, ptr) == join(<<level_token(1), tag, ptr>>)
line_SSN == join(<<level_token(0), id_X, Tag.SSN, txt_123>>)
line_BOGUS == join(<<level_token(0), txt_BOGUS>>)
line_BIRT == join(<<level_token(1), Tag.BIRT>>)
line_DATE(tokens) == join(<<level_token(2), Tag.DATE>> \o tokens)

\* The record blocks the pipeline is run on: a header, individuals (one
\* with a name and a sex, one bare, one with a date that is downgraded to a
\* phrase, one with a date that is fatal), families whose members point to
\* individuals or to another kind of record, an obsolete tag, an unknown tag,
\* and an individual whose DATE line has no value
Blocks ==
  { <<line_HEAD>>,
    <<line_INDI(id_I1), line_NAME, line_SEX>>,
    <<line_INDI(id_I2)>>,
    <<line_INDI(id_I3), line_BIRT, line_DATE(<<d_45, txt_BOGUS, d_1990>>)>>,
    <<line_INDI(id_I4), line_BIRT, line_DATE(<<d_1_2_3>>)>>,
    <<line_FAM(id_F1), line_member(Tag.HUSB, id_I1), line_member(Tag.WIFE, id_I2)>>,
    <<line_FAM(id_F2), line_member(Tag.CHIL, id_X)>>,
    <<line_SSN>>,
    <<line_BOGUS>>,
    <<line_INDI(id_X), line_BIRT, line_DATE(<<>>)>> }

Files == {concat(bs) : bs \in SeqsUpTo(Blocks, MaxBlocks)}

\* Lines that differ in their level only: HEAD at level 0, NOTE below
hier_line(l) == join(<<level_token(l), IF l = 0 THEN Tag.HEAD ELSE Tag.NOTE>>)

HierFiles ==
  {[k \in DOMAIN ls |-> hier_line(ls[k])] : ls \in SeqsUpTo(0..MaxLevel, MaxLines)}

\* One individual with one event whose DATE value is any sequence of the
\* tokens below, followed by a second individual
DateTokens ==
  {d_15, d_JAN, d_1990, txt_BOGUS, d_1990_91, d_1_2_3, d_1_2_3BC, d_BC, d_ABT,
   CalendarType_GREGORIAN, d_at, d_open, d_close}

date_file(tokens) ==
  <<line_HEAD, line_INDI(id_I1), line_BIRT, line_DATE(tokens), line_INDI(id_I2)>>

DateFiles == {date_file(ts) : ts \in SeqsUpTo(DateTokens, MaxDateTokens)}

\* The same file with a DATE value made of a first token that decides the
\* kind of the date or names a calendar, and up to MaxKindTokens more tokens
KindFirst ==
  {d_FROM, d_TO, d_BEF, d_AFT, d_BET, d_ABT, d_CAL, d_EST, d_INT, d_dot, d_1990,
   d_open, d_open_1990, d_JULIAN, d_at}

KindRest == {d_AND, d_1990, d_close, d_JULIAN, d_at}

KindFiles ==
  {date_file(<<first>> \o rest) :
     first \in KindFirst, rest \in SeqsUpTo(KindRest, MaxKindTokens)}

\* A header line followed by one line made of any sequence of the tokens
\* below (a level, an identifier, a tag, a word), or of blanks only
LineTokens == {level_token(0), id_I1, Tag.NOTE, txt_a}

blank_line == <<" ", " ">>

LineFiles ==
  {<<line_HEAD, join(ts)>> : ts \in SeqsUpTo(LineTokens, MaxTokens)}
    \cup {<<line_HEAD, blank_line>>}

\* Files of lines that define an identifier or carry a role tag, at the top
\* level and one level below
RegLines ==
  {join(<<level_token(l)>> \o w) :
     l \in 0..1,
     w \in {<<Tag.HEAD>>, <<id_I1, Tag.INDI>>, <<id_F1, Tag.FAM>>, <<id_I2, Tag.NOTE>>}}

RegFiles == SeqsUpTo(RegLines, MaxRegLines)

\* One individual with a NAME record, or with an event that has an ADDR
\* record, followed by any sequence of the detail lines below, and a second
\* individual
txt_b == <<"b">>
txt_c == <<"c">>

NameDetailLines ==
  {join(<<level_token(l)>> \o w) :
     l \in 2..3, w \in {<<Tag.NOTE, txt_a>>, <<Tag.SOUR, id_X>>}}
    \cup {join(<<level_token(2), tag, txt_b>>) : tag \in {Tag.FONE, Tag.ROMN}}

line_ADDR == join(<<level_token(2), Tag.ADDR, txt_a>>)

AddressDetailLines ==
  {join(<<level_token(3), Tag.CONT, value>>) : value \in {txt_b, txt_c}}
    \cup {join(<<level_token(3), tag, txt_c>>) :
            tag \in {Tag.CITY, Tag.STAE, Tag.POST, Tag.CTRY}}

DetailFiles ==
  {<<line_HEAD, line_INDI(id_I1), line_NAME>> \o ls \o <<line_INDI(id_I2)>> :
     ls \in SeqsUpTo(NameDetailLines, MaxDetailLines)}
    \cup {<<line_HEAD, line_INDI(id_I1), line_BIRT, line_ADDR>> \o ls \o <<line_INDI(id_I2)>> :
            ls \in SeqsUpTo(AddressDetailLines, MaxDetailLines)}

\* One individual whose NAME value is any sequence of the tokens below, with
\* or without a SURN child, followed by a second individual
NameTokens == {txt_John, txt_Smith, txt_Smith_open, txt_Jones_close}

line_NAME_of(tokens) == join(<<level_token(1), Tag.NAME>> \o tokens)

line_SURN == join(<<level_token(2), Tag.SURN, txt_Smith_bare>>)

name_file(tokens, surn) ==
  <<line_HEAD, line_INDI(id_I1), line_NAME_of(tokens)>>
    \o (IF surn THEN <<line_SURN>> ELSE <<>>) \o <<line_INDI(id_I2)>>

NameFiles ==
  {name_file(ts, surn) : ts \in SeqsUpTo(NameTokens, MaxNameTokens), surn \in BOOLEAN}

\* The _data of a container: no key, or one key with a value nested up to
\* MaxDepth deep.  A list, a dict and a nested container hold no item, one
\* item, or two items of which the second is a scalar of Seconds.
Scalars == {PyNone, PyStr(<<>>), PyStr(<<" ">>), PyStr(<<" ", "a">>), PyInt(0)}

\* What stands in second place: a value that is dropped, one that is kept
Seconds == {PyNone, PyStr(<<" ", "a">>)}

ItemLists(values) ==
  {<<>>} \cup {<<v>> : v \in values}
         \cup {<<v, w>> : v \in values, w \in Seconds}

key_names == <<"k1", "k2">>

keys_of(items) == SubSeq(key_names, 1, Len(items))

RECURSIVE Values(_)
Values(d) ==
  IF d = 0 THEN Scalars
  ELSE Scalars
         \cup {PyList(items) : items \in ItemLists(Values(d - 1))}
         \cup {PyDict(keys_of(items), items) : items \in ItemLists(Values(d - 1))}
         \cup {PyEntity(keys_of(items), items) : items \in ItemLists(Values(d - 1))}

Entities == {PyDict(<<>>, <<>>)} \cup {PyDict(<<"k1">>, <<v>>) : v \in Values(MaxDepth)}

(***************************************************************************)
(* Specifications: the same pipeline on each family of inputs              *)
(***************************************************************************)
Init == raw_file_lines \in Files /\ Fresh

Spec == Init /\ [][Next]_vars

InitHier == raw_file_lines \in HierFiles /\ Fresh

SpecHier == InitHier /\ [][Next]_vars

InitDate == raw_file_lines \in DateFiles /\ Fresh

SpecDate == InitDate /\ [][Next]_vars

InitKind == raw_file_lines \in KindFiles /\ Fresh

SpecKind == InitKind /\ [][Next]_vars

InitName == raw_file_lines \in NameFiles /\ Fresh

SpecName == InitName /\ [][Next]_vars

InitPrune ==
  /\ raw_file_lines = <<>>
  /\ Idle
  /\ entity_data \in Entities
  /\ cleaned_data = Nothing

SpecPrune == InitPrune /\ [][NextPrune]_vars

InitLine == raw_file_lines \in LineFiles /\ Fresh

SpecLine == InitLine /\ [][Next]_vars

InitReg == raw_file_lines \in RegFiles /\ Fresh

SpecReg == InitReg /\ [][Next]_vars

InitDetail == raw_file_lines \in DetailFiles /\ Fresh

SpecDetail == InitDetail /\ [][Next]_vars

(***************************************************************************)
(* Reading the input and the forest, for the properties below              *)
(***************************************************************************)
\* The level written on line k of the input
line_level(k) == int(split(raw_file_lines[k])[1])

\* The Records that have j among their children
parents_of(j) == {p \in DOMAIN recs : j \in Range(recs[p].child_records)}

\* The number of ancestors of Record j in the forest
RECURSIVE depth(_)
depth(j) == IF parents_of(j) = {} THEN 0 ELSE 1 + depth(CHOOSE p \in parents_of(j) : TRUE)

\* Pre-order traversal of the trees rooted at ids, children in insertion order
RECURSIVE preorder(_)
preorder(ids) ==
  IF ids = <<>> THEN <<>>
  ELSE <<ids[1]>> \o preorder(recs[ids[1]].child_records) \o preorder(Tail(ids))

\* Each line's level is at most the previous line's level plus one
levels_well_formed ==
  \A k \in 2..Len(raw_file_lines) : line_level(k) <= line_level(k - 1) + 1

forest_returned == file_records.set /\ file_records.val # Nothing

forest_mirrors_levels ==
  /\ \A k \in DOMAIN recs : recs[k].level = line_level(k) /\ depth(k) = recs[k].level
  /\ preorder(file_records.val[1]) = [k \in 1..Len(raw_file_lines) |-> k]

(***************************************************************************)
(* C1 (as stated): for any sequence of valid lines in which each line's    *)
(* level is at most the previous line's level plus one, the forest that    *)
(* parse_raw_lines returns has every record at a depth equal to its level, *)
(* and its pre-order traversal visits the records in line order.           *)
(* Fails for a first line of non-zero level: it becomes a root, depth 0.   *)
(***************************************************************************)
C1_AsStated == (forest_returned /\ levels_well_formed) => forest_mirrors_levels

(***************************************************************************)
(* C1 (amended): the same, for sequences whose first line has level 0.     *)
(***************************************************************************)
C1_DepthEqualsLevel ==
  (forest_returned /\ levels_well_formed
     /\ (raw_file_lines # <<>> => line_level(1) = 0))
  => forest_mirrors_levels

C1_Witness ==
  /\ forest_returned /\ levels_well_formed
  /\ Len(raw_file_lines) >= 4 /\ line_level(1) = 0
  /\ \E k \in DOMAIN recs : depth(k) = 2 /\ k < Len(recs) /\ recs[k + 1].level < 2

(***************************************************************************)
(* C2: tokenizing `0 @I1@ INDI`, `1 NAME John /Smith/`, `1 SEX M` and      *)
(* running parse_indi_records yields exactly one Individual, carrying the  *)
(* identifier of its INDI line, whose sex is MALE and which has exactly    *)
(* one Name whose primary value is `John Smith`.  Checked on the forest of *)
(* the three lines alone, and in the pipeline for every file in which this *)
(* block is the only INDI record.                                          *)
(***************************************************************************)
john_lines == <<line_INDI(id_I1), line_NAME, line_SEX>>

is_john(individuals) ==
  /\ individuals # Nothing
  /\ Len(individuals[1]) = 1
  /\ individuals[1][1].crossReferenceId = id_I1
  /\ individuals[1][1].sex = "MALE"
  /\ Len(individuals[1][1].names) = 1
  /\ individuals[1][1].names[1].value = txt_John_Smith

john_is_only_indi ==
  /\ Len(indi_records) = 1
  /\ indi_records[1] + 2 <= Len(raw_file_lines)
  /\ SubSeq(raw_file_lines, indi_records[1], indi_records[1] + 2) = john_lines

C2_JohnSmith ==
  /\ (raw_file_lines = john_lines /\ pc = "header")
       => is_john(parse_indi_records(recs, indi_records, error, warnings).individuals)
  /\ (file_individuals.set /\ john_is_only_indi) => is_john(file_individuals.val)

C2_Witness ==
  /\ file_individuals.set /\ john_is_only_indi
  /\ file_individuals.val # Nothing
  /\ file_individuals.val[1][1].names[1].value = <<"J", "o", "h", "n", " ", "S", "m", "i", "t", "h">>

(***************************************************************************)
(* C3: when a line defines a cross-reference identifier that an earlier    *)
(* line already defined, parse_raw_lines records DuplicateCrossReference   *)
(* at that line and returns no forest, the run wrapper terminates the      *)
(* pipeline, and the header, individual and family stages never execute.   *)
(***************************************************************************)
defines_known_id(k) ==
  LET tokens == split(raw_file_lines[k]) IN
  /\ Len(tokens) >= 2
  /\ is_valid_level(tokens[1])
  /\ is_cross_ref_id(tokens[2])
  /\ tokens[2] \in DOMAIN top_level_references

no_entity_produced ==
  /\ ~file_records.set /\ ~file_header.set
  /\ ~file_individuals.set /\ ~file_families.set

C3_DuplicateHalts ==
  /\ [][(pc = "raw" /\ cursor <= Len(raw_file_lines) /\ defines_known_id(cursor))
          => (error' = "DuplicateCrossReference" /\ pc' = "exit")]_vars
  /\ [](error = "DuplicateCrossReference"
          => /\ pc = "exit" /\ exit_status = 1
             /\ defines_known_id(cursor)
             /\ \E j \in 1..(cursor - 1) :
                  split(raw_file_lines[j])[2] = split(raw_file_lines[cursor])[2]
             /\ no_entity_produced
             /\ executed = <<"parse_raw_lines">>)

C3_Witness ==
  /\ error = "DuplicateCrossReference" /\ pc = "exit"
  /\ cursor > 1 /\ defines_known_id(cursor)

(***************************************************************************)
(* C4: in parse_fam_records the first HUSB, WIFE or CHIL child whose       *)
(* pointer is not a key of the cross-reference table is fatal and no       *)
(* family list is returned; a pointer that is a key but whose record has   *)
(* no attached Individual is fatal with a different error kind; the two    *)
(* conditions are never reported as the same kind.                         *)
(***************************************************************************)
fam_members ==
  concat([k \in 1..Len(fam_records) |-> recs[fam_records[k]].child_records])

is_member(c) == recs[c].tag \in {Tag.HUSB, Tag.WIFE, Tag.CHIL}

unresolved(c) ==
  is_member(c) /\ recs[c].cross_ref_ptr \notin DOMAIN top_level_references

unbuilt(c) ==
  /\ is_member(c)
  /\ recs[c].cross_ref_ptr \in DOMAIN top_level_references
  /\ recs[top_level_references[recs[c].cross_ref_ptr]].individual = Nothing

first_bad_member(m) ==
  /\ m \in DOMAIN fam_members
  /\ unresolved(fam_members[m]) \/ unbuilt(fam_members[m])
  /\ \A j \in 1..(m - 1) :
       is_member(fam_members[j]) /\ ~unresolved(fam_members[j]) /\ ~unbuilt(fam_members[j])

C4_TwoFatalKinds ==
  [][(pc = "fam" /\ error = None)
       => \A m \in DOMAIN fam_members :
            first_bad_member(m)
            => /\ pc' = "exit" /\ ~file_families'.set
               /\ unresolved(fam_members[m]) => error' = "ReferencedRecordDoesNotExist"
               /\ unbuilt(fam_members[m]) => error' = "ReferencedIndividualDoesNotExist"
               /\ error' = "ReferencedRecordDoesNotExist" => ~unbuilt(fam_members[m])]_vars

C4_Witness ==
  /\ pc = "exit" /\ error = "ReferencedIndividualDoesNotExist"
  /\ ~file_families.set /\ file_individuals.set
  /\ \E m \in DOMAIN fam_members : first_bad_member(m) /\ unbuilt(fam_members[m])

(***************************************************************************)
(* C8 (as stated): a line whose tag is an obsolete tag (SSN or FSID) is    *)
(* accepted by parse_raw_line: its Record has ignorable = TRUE, exactly    *)
(* one warning is appended for it, no fatal error is set for its tag, and  *)
(* the Record is in neither the INDI nor the FAM bucket.                   *)
(* Fails: SSN and FSID are members of Tag as well, so the line is taken    *)
(* as a valid tag, the Record is not ignorable and nothing is logged.      *)
(***************************************************************************)
obsolete_records == {k \in DOMAIN recs : recs[k].tag \in ObsoleteTag}

obsolete_warnings == {k \in DOMAIN warnings : warnings[k] = "ObsoleteTag"}

C8_AsStated ==
  /\ \A k \in obsolete_records :
       /\ recs[k].ignorable
       /\ k \notin Range(indi_records)
       /\ k \notin Range(fam_records)
  /\ Cardinality(obsolete_warnings) = Cardinality(obsolete_records)
  /\ (pc = "exit" /\ error = "InvalidTag" /\ Len(split(raw_file_lines[cursor])) >= 3)
       => split(raw_file_lines[cursor])[3] \notin ObsoleteTag

(***************************************************************************)
(* C10: the run wrapper executes a stage's callback only when the fatal-   *)
(* error slot is empty; when the slot is non-empty after the callback it   *)
(* dumps the warnings followed by the error and terminates the process     *)
(* with a non-zero status; no stage executes after a fatal error.          *)
(***************************************************************************)
dumped_warnings_then_error ==
  /\ Len(stderr) = Len(warnings) + 1
  /\ \A k \in DOMAIN warnings : stderr[k] = <<"[WARNING]", warnings[k]>>
  /\ stderr[Len(stderr)] = <<"[ERROR]", error>>

C10_RunShortCircuits ==
  /\ [][executed' # executed => error = None]_vars
  /\ [](error # None => (pc = "exit" /\ exit_status # 0 /\ dumped_warnings_then_error))
  /\ [][pc # "exit"]_vars

C10_Witness ==
  /\ pc = "exit" /\ error # None /\ exit_status = 1
  /\ Len(warnings) >= 1 /\ Len(stderr) = Len(warnings) + 1
  /\ executed = <<"parse_raw_lines", "parse_header", "parse_indi_records">>

(***************************************************************************)
(* Reading a date file: the tokens of the DATE line and the Date built     *)
(***************************************************************************)
date_tokens ==
  LET tokens == split(raw_file_lines[4]) IN SubSeq(tokens, 3, Len(tokens))

indi_stage_over == "parse_indi_records" \in Range(executed)

date_stage_over == Len(raw_file_lines) >= 4 /\ indi_stage_over

event_date == file_individuals.val[1][1].individualEvents[1].eventDate

has_suffix(s, suffix) ==
  Len(s) >= Len(suffix) /\ SubSeq(s, Len(s) - Len(suffix) + 1, Len(s)) = suffix

\* A one-token year without its B.C. / BC suffix
without_bc_suffix(s) ==
  IF has_suffix(s, <<"B", ".", "C", ".">>) THEN SubSeq(s, 1, Len(s) - 4)
  ELSE IF has_suffix(s, <<"B", "C">>) THEN SubSeq(s, 1, Len(s) - 2)
  ELSE s

month_of(token) == strip(upper(token), ".")

\* The DATE value has no calendar escape and is classified REGULAR
gregorian_regular(tokens) ==
  /\ \A k \in DOMAIN tokens : count(tokens[k], "@") = 0
  /\ determine_date_type(tokens).type = Some("regular")

\* A token of a one-, two- or three-token date fails its numeric or month check
has_failing_token(tokens) ==
  \/ /\ Len(tokens) = 1
     /\ LET year == without_bc_suffix(tokens[1]) IN
        /\ count(year, "/") <= 1
        /\ \E part \in Range(split_on(year, "/")) : ~isdigit(part)
  \/ /\ Len(tokens) = 2
     /\ IF tokens[2] \in {<<"B", ".", "C", ".">>, <<"B", "C">>}
        THEN ~isdigit(tokens[1])
        ELSE month_of(tokens[1]) \notin Month \/ ~isdigit(tokens[2])
  \/ /\ Len(tokens) = 3
     /\ \/ ~isdigit(tokens[1])
        \/ month_of(tokens[2]) \notin Month
        \/ ~isdigit(tokens[3])

well_formed_dmy(tokens) ==
  /\ Len(tokens) = 3
  /\ isdigit(tokens[1])
  /\ tokens[2] # <<>> /\ tokens[2] \in Month
  /\ isdigit(tokens[3])

C6_DayMonthYear ==
  (date_stage_over /\ well_formed_dmy(date_tokens))
  => /\ error = None /\ warnings = <<>>
     /\ file_individuals.set /\ file_individuals.val # Nothing
     /\ event_date # Nothing
     /\ event_date[1].type = "regular"
     /\ event_date[1].day = Some(int(date_tokens[1]))
     /\ event_date[1].month = date_tokens[2]
     /\ event_date[1].year = Some(int(date_tokens[3]))
     /\ event_date[1].isBC = "N"
     /\ (date_tokens = <<d_15, d_JAN, d_1990>>
           => event_date[1].day = Some(15) /\ event_date[1].year = Some(1990))

C6_Witness ==
  /\ date_stage_over /\ date_tokens = <<d_15, d_JAN, d_1990>>
  /\ file_individuals.set /\ file_individuals.val # Nothing
  /\ event_date # Nothing /\ event_date[1].type = "regular"

(***************************************************************************)
(* C7 (as stated): for a single-token Gregorian REGULAR date with exactly  *)
(* one `/` and digits on both sides, parse_date returns a REGULAR Date     *)
(* whose year is the part before the slash and whose Julian alternate year *)
(* is the part after it; a single token with more than one `/` sets a      *)
(* fatal error and no Date is returned.                                    *)
(* Fails for a token with several slashes that also contains BC            *)
(* (`1/2/3BC`): the missing utils.strip_BC raises before the slash count.  *)
(***************************************************************************)
C7_AsStated ==
  (date_stage_over /\ gregorian_regular(date_tokens) /\ Len(date_tokens) = 1)
  => LET token == date_tokens[1]
         parts == split_on(token, "/")
     IN /\ (count(token, "/") = 1 /\ isdigit(parts[1]) /\ isdigit(parts[2]))
             => /\ file_individuals.set /\ file_individuals.val # Nothing
                /\ event_date # Nothing
                /\ event_date[1].type = "regular"
                /\ event_date[1].year = Some(int(parts[1]))
                /\ event_date[1].julianAlternativeYear = Some(int(parts[2]))
        /\ count(token, "/") > 1
             => (error # None /\ pc = "exit" /\ ~file_individuals.set)

(***************************************************************************)
(* C9 (as stated): no fatal condition is silently swallowed: a stage (or a *)
(* sub-parser it calls) that gives up and returns no result has set the    *)
(* error slot, so the wrapper terminates the pipeline and no File field    *)
(* ever receives a missing result.                                         *)
(* Fails for a DATE line whose value is empty after the calendar escape    *)
(* (`2 DATE`, `2 DATE @#DGREGORIAN@`): parse_date returns None at line 627 *)
(* and parse_indi_records returns None at line 511, the slot still empty.  *)
(***************************************************************************)
C9_AsStated ==
  /\ file_records.set => file_records.val # Nothing
  /\ file_header.set => file_header.val # Nothing
  /\ file_individuals.set => file_individuals.val # Nothing
  /\ file_families.set => file_families.val # Nothing

(***************************************************************************)
(* C11 (as stated): the individual pass completes, attaching each          *)
(* Individual to its INDI record, before the family pass reads any record: *)
(* whenever parse_fam_records runs, every INDI record has an attached      *)
(* Individual, and a HUSB/WIFE/CHIL pointer to an INDI record resolves     *)
(* wherever the INDI line stands in the file.                              *)
(* Fails when parse_indi_records gives up on a DATE line without a value   *)
(* and leaves the error slot empty (see C9): the family pass still runs,   *)
(* on INDI records that have no Individual.                                *)
(***************************************************************************)
fam_stage_ran == "parse_fam_records" \in Range(executed)

C11_AsStated ==
  /\ fam_stage_ran => \A k \in Range(indi_records) : recs[k].individual # Nothing
  /\ (fam_stage_ran /\ error = "ReferencedIndividualDoesNotExist")
       => \A m \in DOMAIN fam_members :
            first_bad_member(m)
            => recs[top_level_references[recs[fam_members[m]].cross_ref_ptr]].tag # Tag.INDI

(***************************************************************************)
(* C12 (as stated): parse_raw_line is total over raw lines.  Every call,   *)
(* also on an empty or blank line, on a line holding only a level and on a *)
(* line holding only a level and an identifier, either returns a populated *)
(* Record (the tokenizer goes on to the next line with a new Record and an *)
(* empty error slot) or sets the fatal error and returns no Record (run()  *)
(* exits); it never ends in any other way.                                 *)
(*                                                                         *)
(* The code indexes tokens[0] at line 125 and the tag position at line 153 *)
(* without testing len(tokens), so the lines ``, `  `, `0` and `0 @I1@`    *)
(* raise IndexError out of parse_raw_line.                                 *)
(***************************************************************************)
tokenizer_at_line == pc = "raw" /\ cursor <= Len(raw_file_lines)

C12_AsStated ==
  [][tokenizer_at_line
       => \/ /\ pc' = "raw"
             /\ cursor' = cursor + 1
             /\ Len(recs') = Len(recs) + 1
             /\ error' = None
          \/ /\ pc' = "exit"
             /\ error' # None
             /\ cursor' = cursor]_vars

(***************************************************************************)
(* Reading a NAME value: line 3 of a file of NameFiles                     *)
(***************************************************************************)
name_tokens ==
  LET tokens == split(raw_file_lines[3]) IN SubSeq(tokens, 3, Len(tokens))

has_surn_child ==
  Len(raw_file_lines) >= 4 /\ split(raw_file_lines[4])[2] = Tag.SURN

opens_span(token) == Len(token) >= 1 /\ token[1] = "/"

closes_span(token) == Len(token) >= 1 /\ token[Len(token)] = "/"

\* The first token that opens a surname span, and the first token from
\* there on that closes it
span_first ==
  CHOOSE i \in DOMAIN name_tokens :
    /\ opens_span(name_tokens[i])
    /\ \A h \in 1..(i - 1) : ~opens_span(name_tokens[h])

span_last ==
  CHOOSE j \in span_first..Len(name_tokens) :
    /\ closes_span(name_tokens[j])
    /\ \A h \in span_first..(j - 1) : ~closes_span(name_tokens[h])

has_surname_span ==
  \E i \in DOMAIN name_tokens :
    /\ opens_span(name_tokens[i])
    /\ \E j \in i..Len(name_tokens) : closes_span(name_tokens[j])

\* The span with its two slashes stripped
surname_span ==
  LET text == join(SubSeq(name_tokens, span_first, span_last))
  IN SubSeq(text, 2, Len(text) - 1)

unterminated_span ==
  \E i \in DOMAIN name_tokens :
    /\ opens_span(name_tokens[i])
    /\ \A j \in i..Len(name_tokens) : ~closes_span(name_tokens[j])

individuals_returned == file_individuals.set /\ file_individuals.val # Nothing

\* The first Name of the first Individual
first_name == file_individuals.val[1][1].names[1]

(***************************************************************************)
(* C13 (as stated): for a NAME line whose value contains a slash-delimited *)
(* surname span and which has no SURN child (`1 NAME John /Smith/`), the   *)
(* resulting Name's surname piece is the text of the span with the slashes *)
(* stripped (`Smith`).                                                     *)
(*                                                                         *)
(* parse_name_pieces (lines 392-413) fills the pieces from the child       *)
(* records NPFX, GIVN, NICK, SPFX, SURN and NSFX only; the NAME value is   *)
(* stored with its slashes removed (line 422) and never split, so without  *)
(* a SURN child the surname piece keeps its constructor default ''.        *)
(***************************************************************************)
C13_AsStated ==
  (individuals_returned /\ has_surname_span /\ ~has_surn_child)
    => first_name.namePieces.surname = surname_span

(***************************************************************************)
(* C14 (as stated): a NAME value in which a token beginning with `/` opens *)
(* a surname span that no later token ending with `/` closes is fatal: the *)
(* individual stage sets the error slot and no individuals are returned.   *)
(*                                                                         *)
(* The NAME branch (lines 420-425) only removes the slashes from the value;*)
(* utils.is_surname is called nowhere, so `1 NAME John /Smith` is accepted *)
(* with value `John Smith`.                                                *)
(***************************************************************************)
C14_AsStated ==
  (indi_stage_over /\ unterminated_span)
    => /\ error # None
       /\ pc = "exit"
       /\ ~file_individuals.set

(***************************************************************************)
(* C15 (as stated): for every Date returned by parse_date, the phrase      *)
(* field is non-empty if and only if the Date's kind is PHRASE (reached by *)
(* the parenthesised-phrase classification or by the warning fallback).    *)
(*                                                                         *)
(* The warning fallback stores the value in the phrase field, but a value  *)
(* classified as a phrase by its parentheses (lines 610-615) is decoded by *)
(* no branch of the calendar match (line 646 handles REGULAR only): the    *)
(* Date is returned at line 751 with kind PHRASE and phrase ''.            *)
(***************************************************************************)
date_returned ==
  /\ date_stage_over
  /\ individuals_returned
  /\ event_date # Nothing

C15_AsStated ==
  date_returned => (event_date[1].phrase # <<>> <=> event_date[1].type = "phrase")

(***************************************************************************)
(* Reading a pruned document                                               *)
(***************************************************************************)
\* null, an empty or whitespace-only string, an empty list or dictionary
is_void(value) ==
  \/ value.k = "None"
  \/ value.k = "str" /\ \A i \in DOMAIN value.s : value.s[i] \in Whitespace
  \/ value.k \in {"list", "dict"} /\ value.items = <<>>

\* Neither the value nor anything nested in it is void
RECURSIVE is_clean(_)
is_clean(value) ==
  /\ ~is_void(value)
  /\ \A i \in DOMAIN value.items : is_clean(value.items[i])

\* The non-void scalars of a value in document order, each with the keys
\* that lead to it (list positions are not part of the path)
RECURSIVE scalars_of(_, _)
RECURSIVE scalars_in(_, _, _)
scalars_of(value, path) ==
  IF value.k \in {"str", "int"}
  THEN IF is_void(value) THEN <<>> ELSE <<[path |-> path, value |-> value]>>
  ELSE scalars_in(value, path, 1)

scalars_in(value, path, i) ==
  IF i > Len(value.items) THEN <<>>
  ELSE scalars_of(value.items[i],
                  IF value.keys # <<>> THEN Append(path, value.keys[i]) ELSE path)
         \o scalars_in(value, path, i + 1)

(***************************************************************************)
(* C16: the document returned by prune_data contains, at every nesting     *)
(* depth (nested dictionaries, lists and nested containers), no key and no *)
(* list element whose value is null, an empty or whitespace-only string,   *)
(* an empty list or an empty dictionary; every non-empty scalar of the     *)
(* input is kept unchanged, under the same keys and in the same order.     *)
(***************************************************************************)
C16_PrunedIsClean ==
  cleaned_data # Nothing
    => /\ cleaned_data[1].k = "dict"
       /\ \A i \in DOMAIN cleaned_data[1].items : is_clean(cleaned_data[1].items[i])
       /\ scalars_of(cleaned_data[1], <<>>) = scalars_of(entity_data, <<>>)

\* In a list, a null vanishes and a nested container loses its blank key
\* and keeps its scalar
C16_Witness ==
  /\ entity_data =
       PyDict(<<"k1">>,
              <<PyList(<<PyEntity(<<"k1", "k2">>, <<PyStr(<<" ">>), PyStr(<<" ", "a">>)>>),
                         PyNone>>)>>)
  /\ cleaned_data =
       Some(PyDict(<<"k1">>, <<PyList(<<PyDict(<<"k2">>, <<PyStr(<<" ", "a">>)>>)>>)>>))

(***************************************************************************)
(* C17: first writer wins on the fatal-error slot.  Once the slot has been *)
(* set during a pipeline run, no later assignment in the same stage or in  *)
(* a later stage replaces it with a different message, and the warning log *)
(* only ever grows by appending.  Within the individual stage: the message *)
(* determine_date_type writes for a phrase that opens with `(` and does    *)
(* not end with `)` survives the assignment that follows it at line 639.   *)
(***************************************************************************)
no_calendar_escape == \A i \in DOMAIN date_tokens : "@" \notin Range(date_tokens[i])

unclosed_phrase ==
  /\ date_tokens # <<>>
  /\ date_tokens[1] = d_open
  /\ date_tokens[Len(date_tokens)] # d_close
  /\ no_calendar_escape

first_writer_kept == (date_stage_over /\ unclosed_phrase) => error = "UnclosedPhrase"

warnings_appended ==
  /\ Len(warnings') >= Len(warnings)
  /\ SubSeq(warnings', 1, Len(warnings)) = warnings

C17_FirstWriterWins ==
  [][/\ error # None => error' = error
     /\ warnings_appended
     /\ first_writer_kept']_vars

C17_Witness ==
  /\ date_tokens = <<d_open, d_1990>>
  /\ date_stage_over
  /\ error = "UnclosedPhrase"
  /\ pc = "exit"

(***************************************************************************)
(* C18: for any sequence of valid lines with arbitrary levels (level jumps *)
(* and a first line of non-zero level included), parse_raw_lines attaches  *)
(* each record as the last child of the nearest preceding record whose     *)
(* level is strictly smaller, and appends it to the top-level result       *)
(* sequence exactly when no preceding record has a strictly smaller level; *)
(* a record of equal level ends the previous sibling's scope.  Stated for  *)
(* the forest at every step of the tokenizer and for the forest returned.  *)
(***************************************************************************)
\* The preceding records of strictly smaller level
smaller_before(k) == {j \in 1..(k - 1) : recs[j].level < recs[k].level}

nearest_smaller_before(k) ==
  CHOOSE j \in smaller_before(k) : \A h \in smaller_before(k) : h <= j

\* Children and roots were appended one after the other, in line order
ascending(ids) == \A a, b \in DOMAIN ids : a < b => ids[a] < ids[b]

C18_NearestSmallerParent ==
  /\ \A k \in DOMAIN recs :
       /\ recs[k].level = line_level(k)
       /\ ascending(recs[k].child_records)
       /\ IF smaller_before(k) = {}
          THEN parents_of(k) = {} /\ k \in Range(parsed_records)
          ELSE parents_of(k) = {nearest_smaller_before(k)} /\ k \notin Range(parsed_records)
       /\ (k > 1 /\ recs[k - 1].level = recs[k].level)
            => k \notin Range(recs[k - 1].child_records)
               /\ parents_of(k) = parents_of(k - 1)
  /\ ascending(parsed_records)
  /\ forest_returned => file_records.val[1] = parsed_records

\* Levels 1, 0, 2, 2: a first line of non-zero level, a jump from 0 to 2,
\* and two siblings of equal level
C18_Witness ==
  /\ forest_returned
  /\ Len(raw_file_lines) = 4
  /\ [k \in 1..4 |-> line_level(k)] = <<1, 0, 2, 2>>
  /\ file_records.val[1] = <<1, 2>>
  /\ recs[2].child_records = <<3, 4>>

(***************************************************************************)
(* Reading the second line of a file of LineFiles                          *)
(***************************************************************************)
line_tokens == split(raw_file_lines[2])

\* The line defines an identifier in front of its tag
line_has_id ==
  /\ Len(line_tokens) >= 2
  /\ is_cross_ref_id(line_tokens[2]) /\ is_valid_cross_ref_id(line_tokens[2])

tag_position == IF line_has_id THEN 3 ELSE 2

\* The line is accepted up to and including its tag
line_tagged ==
  /\ Len(line_tokens) >= tag_position
  /\ is_valid_level(line_tokens[1])
  /\ is_valid_tag(line_tokens[tag_position])

value_tokens == SubSeq(line_tokens, tag_position + 1, Len(line_tokens))

is_pointer(token) == is_cross_ref_id(token) /\ is_valid_cross_ref_id(token)

pointer_tokens == SelectSeq(value_tokens, is_pointer)

text_tokens == SelectSeq(value_tokens, LAMBDA token : ~is_pointer(token))

\* The tokenizer has dealt with the second line
line_processed == Len(raw_file_lines) >= 2 /\ (cursor > 2 \/ pc \notin {"start", "raw"})

(***************************************************************************)
(* C19: in parse_raw_line a value token with cross-reference syntax and    *)
(* validity becomes the record's cross_ref_ptr only if the record defines  *)
(* no cross_ref_id; if it does, the line is rejected with the fatal        *)
(* duplicate-pointer-and-reference error.  Hence no Record has both a      *)
(* cross_ref_id and a cross_ref_ptr.                                       *)
(***************************************************************************)
C19_PointerOrReference ==
  /\ \A k \in DOMAIN recs : recs[k].cross_ref_id = <<>> \/ recs[k].cross_ref_ptr = <<>>
  /\ (line_processed /\ line_tagged /\ pointer_tokens # <<>>)
       => IF line_has_id
          THEN /\ error = "DuplicatePointerAndReference"
               /\ pc = "exit"
               /\ ~file_records.set
          ELSE /\ error = None
               /\ Len(recs) = 2
               /\ recs[2].cross_ref_ptr = pointer_tokens[Len(pointer_tokens)]

\* `0 @I1@ NOTE @I1@` is rejected
C19_Witness ==
  /\ line_tokens = <<level_token(0), id_I1, Tag.NOTE, id_I1>>
  /\ error = "DuplicatePointerAndReference"
  /\ pc = "exit"

(***************************************************************************)
(* C20 (as stated): for every Record returned by parse_raw_line,           *)
(* line_value is exactly the non-pointer value tokens in source order      *)
(* joined by single spaces; it never begins or ends with a space, whatever *)
(* the position of a pointer token among the value tokens.                 *)
(*                                                                         *)
(* Line 188 appends the separator whenever the token is not the last token *)
(* of the line, also when only pointer tokens follow: `0 NOTE a @I1@`      *)
(* gives the line_value `a ` with a trailing space.                        *)
(***************************************************************************)
C20_AsStated ==
  (line_processed /\ line_tagged /\ error = None /\ Len(recs) = 2)
    => recs[2].line_value = join(text_tokens)

(***************************************************************************)
(* C21 (as stated): parse_date classifies the date kind from the first     *)
(* token: FROM or TO gives PERIOD; BEF, AFT or BET gives RANGE; ABT, CAL   *)
(* or EST gives APPROXIMATED; INT gives REGULAR; any other first token     *)
(* that is not `(` gives REGULAR.  A value starting with BET that contains *)
(* no AND token is a fatal error and no Date is returned.  The kinds other *)
(* than REGULAR are not decoded further, so they are also the kind of the  *)
(* Date returned.                                                          *)
(*                                                                         *)
(* DateRange and DateApproximated have a member NONE = '' (enums.py), and  *)
(* the first token is compared after rstrip('.'): a first token made of    *)
(* periods becomes '' and is found in DateRange, so `. 1990` is a RANGE.   *)
(* A range keyword followed by AND is rejected as well (line 596).         *)
(***************************************************************************)
claimed_kind(first) ==
  IF first \in {d_FROM, d_TO} THEN "period"
  ELSE IF first \in {d_BEF, d_AFT, d_BET} THEN "range"
  ELSE IF first \in {d_ABT, d_CAL, d_EST} THEN "approximated"
  ELSE "regular"

C21_AsStated ==
  (date_stage_over /\ no_calendar_escape /\ date_tokens # <<>> /\ date_tokens[1] # d_open)
    => IF date_tokens[1] = d_BET /\ d_AND \notin Range(date_tokens)
       THEN error # None /\ pc = "exit" /\ ~file_individuals.set
       ELSE /\ determine_date_type(date_tokens).type = Some(claimed_kind(date_tokens[1]))
            /\ claimed_kind(date_tokens[1]) # "regular"
                 => /\ date_returned
                    /\ event_date[1].type = claimed_kind(date_tokens[1])

(***************************************************************************)
(* C22 (as stated): a date value that begins with `(` is classified PHRASE *)
(* when it ends with a matching `)`, and is a fatal error (no Date         *)
(* returned, error slot set) when the closing `)` is missing, whether or   *)
(* not the parentheses are separated from the phrase text by whitespace.   *)
(*                                                                         *)
(* determine_date_type compares whole tokens (lines 610-611): only a value *)
(* whose first token is exactly `(` is treated as a phrase.  `(1990` is    *)
(* classified REGULAR and comes back as a Date, with a warning.            *)
(***************************************************************************)
begins_with_parenthesis == date_tokens # <<>> /\ date_tokens[1][1] = "("

ends_with_parenthesis ==
  LET last == date_tokens[Len(date_tokens)] IN last[Len(last)] = ")"

C22_AsStated ==
  (date_stage_over /\ no_calendar_escape /\ begins_with_parenthesis)
    => IF ends_with_parenthesis
       THEN /\ determine_date_type(date_tokens).type = Some("phrase")
            /\ date_returned
            /\ event_date[1].type = "phrase"
       ELSE error # None /\ pc = "exit" /\ ~file_individuals.set

(***************************************************************************)
(* C23 (as stated): a date value containing exactly one `@` is a fatal     *)
(* error; a value containing two `@`s selects the calendar named by the    *)
(* marker, which is removed from the working text, and is a fatal error if *)
(* the marker is not a known calendar; a value with no `@` is decoded as   *)
(* Gregorian.  In each fatal case no Date is returned and the error slot   *)
(* is set.                                                                 *)
(*                                                                         *)
(* With two `@`s the code first requires the marker to open the value      *)
(* (lines 564-567): `1990 @#DJULIAN@` names a known calendar and is fatal. *)
(***************************************************************************)
date_value == join(date_tokens)

at_positions == {k \in DOMAIN date_value : date_value[k] = "@"}

\* The text from the first `@` to the last one
marker ==
  LET first == CHOOSE k \in at_positions : \A h \in at_positions : k <= h
      last  == CHOOSE k \in at_positions : \A h \in at_positions : h <= k
  IN SubSeq(date_value, first, last)

calendar_errors == {"MalformedCalendar", "MisplacedCalendar", "UnknownCalendar"}

fatal_calendar(kind) ==
  error = kind /\ pc = "exit" /\ ~file_individuals.set

C23_AsStated ==
  date_stage_over
    => /\ Cardinality(at_positions) = 1 => fatal_calendar("MalformedCalendar")
       /\ (Cardinality(at_positions) = 2 /\ marker \notin CalendarType)
            => error \in calendar_errors /\ pc = "exit" /\ ~file_individuals.set
       /\ (Cardinality(at_positions) = 2 /\ marker \in CalendarType)
            => /\ error \notin calendar_errors
               /\ date_returned
                    => /\ event_date[1].calendar = marker
                       /\ "@" \notin Range(event_date[1].phrase)
       /\ (Cardinality(at_positions) = 0 /\ date_returned)
            => event_date[1].calendar = CalendarType_GREGORIAN

(***************************************************************************)
(* C28 (as stated): every Date that parse_date returns with the Gregorian  *)
(* calendar and kind REGULAR has its year field populated, for a value of  *)
(* any number of tokens (four or more tokens and values starting with INT  *)
(* included); a REGULAR Gregorian value that cannot be decoded is never    *)
(* returned as REGULAR with empty fields and no warning.                   *)
(*                                                                         *)
(* The decoder has branches for one, two and three tokens only (lines 647, *)
(* 680 and 699); a REGULAR value of four tokens falls through all of them  *)
(* and is returned at line 751 as set up at line 641.                      *)
(***************************************************************************)
C28_AsStated ==
  (date_returned
     /\ event_date[1].calendar = CalendarType_GREGORIAN
     /\ event_date[1].type = "regular")
    => event_date[1].year # Nothing

(***************************************************************************)
(* C24: the cross-reference table is write-once per key during            *)
(* parse_raw_lines (a key, once bound, is never rebound or removed) and is *)
(* read-only during parse_header, parse_indi_records and                   *)
(* parse_fam_records; the structure parsers also leave every Record's      *)
(* level, tag, line value, identifiers and children unchanged, the only    *)
(* mutation being the one-time attachment of an Individual to its INDI     *)
(* record.                                                                 *)
(***************************************************************************)
bindings_kept ==
  \A id \in DOMAIN top_level_references :
    /\ id \in DOMAIN top_level_references'
    /\ top_level_references'[id] = top_level_references[id]

structure_pass == pc \in {"header", "indi", "fam"}

\* Record k is the same but for its Individual slot
same_line(k) ==
  /\ recs'[k].level = recs[k].level
  /\ recs'[k].tag = recs[k].tag
  /\ recs'[k].line_value = recs[k].line_value
  /\ recs'[k].cross_ref_id = recs[k].cross_ref_id
  /\ recs'[k].cross_ref_ptr = recs[k].cross_ref_ptr
  /\ recs'[k].child_records = recs[k].child_records

\* The slot is left alone, or filled for the first time, during the
\* individual stage, with the Individual of this INDI record
attached_once(k) ==
  \/ recs'[k].individual = recs[k].individual
  \/ /\ pc = "indi"
     /\ recs[k].individual = Nothing
     /\ recs[k].tag = Tag.INDI
     /\ recs'[k].individual # Nothing
     /\ recs'[k].individual[1].crossReferenceId = recs[k].cross_ref_id

C24_Frames ==
  [][/\ bindings_kept
     /\ structure_pass
          => /\ top_level_references' = top_level_references
             /\ DOMAIN recs' = DOMAIN recs
             /\ \A k \in DOMAIN recs : same_line(k) /\ attached_once(k)]_vars

\* All stages have run on a file with two bound identifiers and an
\* Individual attached
C24_Witness ==
  /\ pc = "done"
  /\ Cardinality(DOMAIN top_level_references) >= 2
  /\ \E k \in DOMAIN recs : recs[k].individual # Nothing
  /\ "parse_fam_records" \in Range(executed)

\* parse_raw_lines has returned its result sequence
raw_lines_returned == pc \notin {"start", "raw"} /\ "parse_raw_lines" \in Range(executed)

\* The Records the tokenizer has registered, under an identifier or a role
registered ==
  {top_level_references[id] : id \in DOMAIN top_level_references}
    \cup Range(indi_records) \cup Range(fam_records) \cup Range(header_record)

(***************************************************************************)
(* C25 (as stated): only top-level records are registered: after           *)
(* parse_raw_lines, every Record that carries a cross_ref_id (every value  *)
(* of the cross-reference table) and every Record in the INDI and FAM      *)
(* buckets and the header slot has level 0 and is a member of the          *)
(* top-level result sequence.                                              *)
(*                                                                         *)
(* Violated: parse_raw_line (lines 133-163) registers the identifier and   *)
(* the role of a line whatever its level; after `0 HEAD`, `1 @I1@ INDI`    *)
(* the table and the INDI bucket hold a level 1 Record that is a child of  *)
(* the header, not a member of the result.                                 *)
(***************************************************************************)
C25_AsStated ==
  (raw_lines_returned /\ error = None)
    => \A k \in registered :
         recs[k].level = 0 /\ k \in Range(parsed_records)

(***************************************************************************)
(* C26: stack invariant of parse_raw_lines: after each processed line the  *)
(* levels of the records on the stack are strictly increasing from bottom  *)
(* to top, the top of the stack is the record of the line just processed,  *)
(* each stack entry above the bottom is a child of the entry below it, and *)
(* every child record in the forest has a level strictly greater than its  *)
(* parent's level.                                                         *)
(***************************************************************************)
lines_processed == IF pc = "raw" THEN cursor - 1 ELSE 0

stack_levels_increase ==
  \A i \in 1..(Len(stack) - 1) : recs[stack[i]].level < recs[stack[i + 1]].level

stack_is_a_path ==
  \A i \in 1..(Len(stack) - 1) : stack[i + 1] \in Range(recs[stack[i]].child_records)

children_are_deeper ==
  \A p \in DOMAIN recs :
    \A c \in Range(recs[p].child_records) : recs[c].level > recs[p].level

C26_StackInvariant ==
  /\ lines_processed > 0
       => /\ stack # <<>>
          /\ stack[Len(stack)] = lines_processed
          /\ recs[lines_processed].level = line_level(lines_processed)
  /\ stack_levels_increase
  /\ stack_is_a_path
  /\ children_are_deeper

\* Four lines processed, the last one having closed a deeper scope and
\* become the second child of the bottom entry
C26_Witness ==
  /\ lines_processed = 4
  /\ Len(stack) = 2
  /\ Len(recs[stack[1]].child_records) = 2
  /\ Len(recs[recs[stack[1]].child_records[1]].child_records) = 1

\* The registries of the parser, as a record
registry_contents ==
  [refs |-> top_level_references, header |-> header_record,
   indi |-> indi_records, fam |-> fam_records]

kids_tagged(p, tag) == SelectSeq(recs[p].child_records, LAMBDA c : recs[c].tag = tag)

last_of(s) == s[Len(s)]

\* The individual stage has returned the individuals of a file whose third
\* line is the record given
detail_returned(line) ==
  /\ raw_file_lines[3] = line
  /\ indi_stage_over
  /\ individuals_returned

(***************************************************************************)
(* C30 (as stated): for a NAME record with NOTE and SOUR children, the     *)
(* resulting Name's note is the line value of the NOTE child and its       *)
(* source citation is the pointer of the SOUR child, in the same way as    *)
(* the phonetic (FONE) and romanized (ROMN) variants take their note and   *)
(* citation from their own NOTE and SOUR children.                         *)
(*                                                                         *)
(* Violated: lines 433-436 read the NAME record (child), not its child     *)
(* (name_child): for `1 NAME John /Smith/` with `2 NOTE a` and             *)
(* `2 SOUR @X@` the note is `John /Smith/` and the citation is empty.  The *)
(* FONE and ROMN branches read their own children.                         *)
(***************************************************************************)
C30_AsStated ==
  detail_returned(line_NAME)
    => /\ kids_tagged(3, Tag.NOTE) # <<>>
            => first_name.nameNote = recs[last_of(kids_tagged(3, Tag.NOTE))].line_value
       /\ kids_tagged(3, Tag.SOUR) # <<>>
            => first_name.nameSourceCitation
                 = recs[last_of(kids_tagged(3, Tag.SOUR))].cross_ref_ptr
       /\ \A v \in Range(recs[3].child_records) :
            /\ (kids_tagged(3, Tag.FONE) = <<v>> /\ kids_tagged(v, Tag.NOTE) # <<>>)
                 => first_name.phoneticNote
                      = recs[last_of(kids_tagged(v, Tag.NOTE))].line_value
            /\ (kids_tagged(3, Tag.FONE) = <<v>> /\ kids_tagged(v, Tag.SOUR) # <<>>)
                 => first_name.phoneticSourceCitation
                      = recs[last_of(kids_tagged(v, Tag.SOUR))].cross_ref_ptr
            /\ (kids_tagged(3, Tag.ROMN) = <<v>> /\ kids_tagged(v, Tag.NOTE) # <<>>)
                 => first_name.romanizedNote
                      = recs[last_of(kids_tagged(v, Tag.NOTE))].line_value
            /\ (kids_tagged(3, Tag.ROMN) = <<v>> /\ kids_tagged(v, Tag.SOUR) # <<>>)
                 => first_name.romanizedSourceCitation
                      = recs[last_of(kids_tagged(v, Tag.SOUR))].cross_ref_ptr

\* The Address of the first event of the first Individual
event_address == file_individuals.val[1][1].individualEvents[1].eventAddress

\* The tag of a CONT child that follows a CITY, STAE, POST or CTRY child
cont_out_of_order(p) ==
  \E i, j \in DOMAIN recs[p].child_records :
    /\ i < j
    /\ recs[recs[p].child_records[i]].tag \in {Tag.CITY, Tag.STAE, Tag.POST, Tag.CTRY}
    /\ recs[recs[p].child_records[j]].tag = Tag.CONT

\* The line value of the last child of p with the tag, '' without one
value_tagged(p, tag) ==
  IF kids_tagged(p, tag) = <<>> THEN <<>>
  ELSE recs[last_of(kids_tagged(p, tag))].line_value

(***************************************************************************)
(* C29 (as stated): for an individual event with an ADDR child,            *)
(* parse_indi_records produces an event Address whose address lines are    *)
(* the ADDR line value followed by the line values of its CONT children in *)
(* source order, and whose city, state, postal code and country come from  *)
(* the ADDR record's CITY, STAE, POST and CTRY children; a CONT child      *)
(* appearing after one of those four is a fatal out-of-order error.        *)
(*                                                                         *)
(* Violated: line 516 hands the ADDR record itself to parse_address, which *)
(* looks for ADDR among the children of the record it is given (lines      *)
(* 765-767).  `2 ADDR a` alone gives an Address without address lines, and *)
(* any CONT, CITY, STAE, POST or CTRY child of it is a fatal unrecognized  *)
(* address tag.                                                            *)
(***************************************************************************)
C29_AsStated ==
  (raw_file_lines[3] = line_BIRT /\ indi_stage_over)
    => IF cont_out_of_order(4)
       THEN error = "OutOfOrderCont" /\ pc = "exit"
       ELSE /\ individuals_returned
            /\ event_address # Nothing
            /\ event_address[1].addressLines
                 = <<recs[4].line_value>>
                     \o [k \in DOMAIN kids_tagged(4, Tag.CONT) |->
                           recs[kids_tagged(4, Tag.CONT)[k]].line_value]
            /\ event_address[1].cityAddress = value_tagged(4, Tag.CITY)
            /\ event_address[1].stateAddress = value_tagged(4, Tag.STAE)
            /\ event_address[1].zipCode = value_tagged(4, Tag.POST)
            /\ event_address[1].countryAddress = value_tagged(4, Tag.CTRY)

====
